---- MODULE Spec2Model ----
(***************************************************************************)
(* A verification model of the simulation kernel of tragedy-of-the-commons: *)
(* the fixed-timestep SimulationEngine, the grid models LogisticGrid,       *)
(* WearGrid and DiffusionGrid, the Pathfinder, the MM1Queue, the            *)
(* PacketManager and the BoidSystem.                                        *)
(*                                                                          *)
(* Numbers of the engine.  JavaScript numbers are IEEE-754 doubles.         *)
(*  - Wall-clock timestamps are whole milliseconds.                         *)
(*  - Simulation time spans (rawDt, effectiveDt, accumulator, the dt        *)
(*    argument) are exact multiples of 1/12000 s, a lattice on which        *)
(*    1 ms = 12 units, FIXED_DT = 200 units and every speed multiplier      *)
(*    maps lattice points of the inputs used here to lattice points.        *)
(*  - elapsed is kept as the double it is: the claims state exact           *)
(*    equalities on it, so the rounding of `elapsed += FIXED_DT` is part    *)
(*    of the model (the F64 operators).                                     *)
(*  - speed is counted in quarters: 0.25 -> 1, 0.5 -> 2, 1 -> 4, 2 -> 8,    *)
(*    4 -> 16.                                                              *)
(***************************************************************************)
EXTENDS Integers, Sequences, FiniteSets, TLC

Min(a, b) == IF a <= b THEN a ELSE b
Max(a, b) == IF a >= b THEN a ELSE b

----------------------------------------------------------------------------
(* Bounds of the model.                                                     *)

\* The wall clock runs from 0 to MaxClockSteps * ClockStep milliseconds.
MaxClockSteps == 5

\* The wall clock advances in multiples of ClockStep milliseconds.
ClockStep == 25 * 2

\* Gaps between two readings of the clock, in ms; the last exceeds 200 ms.
Deltas == {0, ClockStep, 5 * ClockStep}

MaxTime == MaxClockSteps * ClockStep

----------------------------------------------------------------------------
(* IEEE-754 doubles in [0, 2^6): a value is the natural number of its       *)
(* multiples of 2^-58 (the unit in the last place of 1/60), written in      *)
(* three digits of base 2^20, most significant first; the first digit may   *)
(* exceed the base.  Every double that is a sum of copies of FIXED_DT is    *)
(* such a multiple.  The exact values met are below 2^64, so rounding       *)
(* drops at most 11 bits of the last digit.                                 *)

Limb == 2^20

F64Zero == <<0, 0, 0>>

\* Carry-normalised digits of hi*Limb^2 + mid*Limb + lo.
BigNorm(hi, mid, lo) ==
    LET m == mid + (lo \div Limb)
    IN  <<hi + (m \div Limb), m % Limb, lo % Limb>>

BigAdd(a, b) == BigNorm(a[1] + b[1], a[2] + b[2], a[3] + b[3])

\* n * a for a natural n < 2^11.
BigScale(n, a) == BigNorm(n * a[1], n * a[2], n * a[3])

\* How many binary digits the exact value with leading digit hi < 2^24 has
\* beyond the 53 of a double (hi < 2^13: none).
ExcessBits(hi) ==
    IF hi < 2^13 THEN 0
    ELSE IF hi < 2^14 THEN 1
    ELSE IF hi < 2^15 THEN 2
    ELSE IF hi < 2^16 THEN 3
    ELSE IF hi < 2^17 THEN 4
    ELSE IF hi < 2^18 THEN 5
    ELSE IF hi < 2^19 THEN 6
    ELSE IF hi < 2^20 THEN 7
    ELSE IF hi < 2^21 THEN 8
    ELSE IF hi < 2^22 THEN 9
    ELSE IF hi < 2^23 THEN 10
    ELSE 11

\* The value with the remainder r below ulp rounded away, ties to even.
RoundTo(hi, mid, lo, ulp, r) ==
    IF (2 * r > ulp) \/ (2 * r = ulp /\ ((lo \div ulp) % 2) = 1)
    THEN BigNorm(hi, mid, lo - r + ulp)
    ELSE <<hi, mid, lo - r>>

RoundAt(hi, mid, lo, ulp) ==
    IF ulp = 1 THEN <<hi, mid, lo>> ELSE RoundTo(hi, mid, lo, ulp, lo % ulp)

\* Round an exact value to the 53 significant bits of a double.
F64Round(a) == RoundAt(a[1], a[2], a[3], 2^ExcessBits(a[1]))

\* a + b in double arithmetic.
F64Add(a, b) == F64Round(BigAdd(a, b))

\* n * a in double arithmetic, n a small natural.
F64Times(n, a) == F64Round(BigScale(n, a))

\* a <= b for exact values.
BigLe(a, b) ==
    \/ a[1] < b[1]
    \/ a[1] = b[1] /\ a[2] < b[2]
    \/ a[1] = b[1] /\ a[2] = b[2] /\ a[3] <= b[3]

\* |a - b| <= c, c a small natural.
BigWithin(a, b, c) ==
    /\ BigLe(a, BigAdd(b, <<0, 0, c>>))
    /\ BigLe(b, BigAdd(a, <<0, 0, c>>))

\* The unit in the last place of the double a, in multiples of 2^-58.
F64Ulp(a) == 2^ExcessBits(a[1])

----------------------------------------------------------------------------
(* Numbers of the grid models.  Cells are float32 (Float32Array), every     *)
(* other number a double.                                                   *)
(*  - A cell value is the integer of its multiples of 2^-26: One is 1.0.    *)
(*    Math.fround keeps 24 significant bits of such a value, ties to even;  *)
(*    below 2^-3, where float32 is finer than 2^-26, it keeps 2^-26.        *)
(*  - A double is a sign and a magnitude in multiples of 2^-58, in three    *)
(*    digits of base 2^20 like elapsed.  Parameters and arguments are 0 or  *)
(*    plus or minus a power of two, so that a product with one of them is   *)
(*    exact, and sums are rounded to 53 bits.                               *)
(*  - NaN is kept apart from every number.                                  *)

One == 2^26

NaN == -(2^30)

Abs(n) == IF n < 0 THEN -n ELSE n

\* The unit in the last place of the float32 nearest to m / 2^26, m >= 0.
Ulp32(m) ==
    IF m < 2^24 THEN 1
    ELSE IF m < 2^25 THEN 2
    ELSE IF m < 2^26 THEN 4
    ELSE IF m < 2^27 THEN 8
    ELSE IF m < 2^28 THEN 16
    ELSE IF m < 2^29 THEN 32
    ELSE 64

\* m + f rounded to a multiple of ulp, ties to even, where the fraction f
\* is 0 (half = sticky = FALSE), in (0, 1/2), 1/2 (half only), or in
\* (1/2, 1) (half and sticky).
RoundTies(m, half, sticky, ulp) ==
    LET t    == 2 * m + (IF half THEN 1 ELSE 0)
        r    == t % (2 * ulp)
        down == (t - r) \div 2
        up   == \/ r > ulp
                \/ r = ulp /\ sticky
                \/ r = ulp /\ ~sticky /\ (down \div ulp) % 2 = 1
    IN  IF up THEN down + ulp ELSE down

\* Math.fround of a value of the lattice: what a Float32Array stores.
Fround(n) ==
    IF n = NaN THEN NaN
    ELSE IF n < 0 THEN -RoundTies(-n, FALSE, FALSE, Ulp32(-n))
    ELSE RoundTies(n, FALSE, FALSE, Ulp32(n))

F64NaN == [neg |-> FALSE, mag |-> <<-1, 0, 0>>]

IsNaN(w) == w.mag[1] < 0

\* The double of sign neg and magnitude mag (no negative zero).
F64(neg, mag) == [neg |-> neg /\ mag # F64Zero, mag |-> mag]

\* The double that a cell value is.
Widen(n) ==
    IF n = NaN THEN F64NaN
    ELSE F64(n < 0, <<Abs(n) \div 2^8, (Abs(n) % 2^8) * 2^12, 0>>)

\* Math.fround of a double: the cell value stored for it.
FroundF64(w) ==
    IF IsNaN(w) THEN NaN
    ELSE LET m      == w.mag[1] * 2^8 + (w.mag[2] \div 2^12)
             rest   == w.mag[2] % 2^12
             half   == rest >= 2^11
             sticky == (rest % 2^11) # 0 \/ w.mag[3] # 0
             n      == RoundTies(m, half, sticky, Ulp32(m))
         IN  IF w.neg THEN -n ELSE n

\* a - b for exact values a >= b.
BigSub(a, b) == BigNorm(a[1] - b[1], a[2] - b[2], a[3] - b[3])

\* a / d for d a power of two up to 2^10 that divides a.
BigShr(a, d) ==
    <<a[1] \div d,
      (a[2] + (a[1] % d) * Limb) \div d,
      (a[3] + (a[2] % d) * Limb) \div d>>

\* x * y in multiples of 2^-52 for naturals x, y < 2^28 of the lattice.
BigMul(x, y) ==
    LET x1 == x \div 2^14
        x0 == x % 2^14
        y1 == y \div 2^14
        y0 == y % 2^14
        hh == x1 * y1
        m  == x1 * y0 + x0 * y1
        ll == x0 * y0
    IN  BigNorm(hh \div 2^12,
                (hh % 2^12) * 2^8 + (m \div 2^6),
                (m % 2^6) * 2^14 + ll)

\* a + b
Plus(a, b) ==
    IF IsNaN(a) \/ IsNaN(b) THEN F64NaN
    ELSE IF a.neg = b.neg THEN F64(a.neg, F64Round(BigAdd(a.mag, b.mag)))
    ELSE IF BigLe(b.mag, a.mag)
         THEN F64(a.neg, F64Round(BigSub(a.mag, b.mag)))
         ELSE F64(b.neg, F64Round(BigSub(b.mag, a.mag)))

Negate(a) == IF IsNaN(a) THEN a ELSE F64(~a.neg, a.mag)

\* a - b
Minus(a, b) == Plus(a, Negate(b))

\* a <= b (FALSE when either is NaN)
LessEq(a, b) ==
    /\ ~IsNaN(a)
    /\ ~IsNaN(b)
    /\ IF a.neg # b.neg THEN a.neg
       ELSE IF a.neg THEN BigLe(b.mag, a.mag)
       ELSE BigLe(a.mag, b.mag)

\* a < b (FALSE when either is NaN)
Less(a, b) == LessEq(a, b) /\ a # b

\* Math.min and Math.max of doubles
MathMin(a, b) ==
    IF IsNaN(a) \/ IsNaN(b) THEN F64NaN ELSE IF LessEq(a, b) THEN a ELSE b

MathMax(a, b) ==
    IF IsNaN(a) \/ IsNaN(b) THEN F64NaN ELSE IF LessEq(a, b) THEN b ELSE a

\* a * p for p a cell value that is 0 or plus or minus a power of two from
\* 2^-10 to 2^10: the product is exact.
Scaled(a, p) ==
    IF IsNaN(a) \/ p = NaN THEN F64NaN
    ELSE IF p = 0 THEN F64(FALSE, F64Zero)
    ELSE F64(a.neg # (p < 0),
             IF Abs(p) >= One THEN BigScale(Abs(p) \div One, a.mag)
             ELSE BigShr(a.mag, One \div Abs(p)))

\* a / p for p as in Scaled and not 0.
Divided(a, p) ==
    IF IsNaN(a) \/ p = NaN THEN F64NaN
    ELSE F64(a.neg # (p < 0),
             IF Abs(p) >= One THEN BigShr(a.mag, Abs(p) \div One)
             ELSE BigScale(One \div Abs(p), a.mag))

\* x * y for cell values x and y
Times(x, y) ==
    IF x = NaN \/ y = NaN THEN F64NaN
    ELSE F64((x < 0) # (y < 0),
             F64Round(BigScale(2^6, BigMul(Abs(x), Abs(y)))))

----------------------------------------------------------------------------
(* core/types: SPEED_OPTIONS and FIXED_DT.                                  *)

\* [0.25, 0.5, 1, 2, 4] in quarters.
SPEED_OPTIONS == <<1, 2, 4, 8, 16>>

UnitsPerSecond == 60 * 200
UnitsPerMs == UnitsPerSecond \div 1000

\* 1 / 60 s on the lattice of time spans.
FIXED_DT == UnitsPerSecond \div 60

\* The double 1 / 60 = 0x3F91111111111111: 0x11111111111111 * 2^-58.
FIXED_DT_F64 == <<4369, 69905, 69905>>

\* 0.2 s, the largest frame delta the loop accepts.
SpiralCap == UnitsPerSecond \div 5

\* The one element of a singleton set.
The(S) == CHOOSE x \in S : TRUE

IndexOf(seq, x) ==
    IF \E i \in 1..Len(seq) : seq[i] = x
    THEN CHOOSE i \in 1..Len(seq) : seq[i] = x
    ELSE 0

Includes(seq, x) == \E i \in 1..Len(seq) : seq[i] = x

----------------------------------------------------------------------------
(* State.                                                                   *)

VARIABLES
    \* SimulationEngine
    isPlaying,      \* state.isPlaying
    speed,          \* state.speed, in quarters
    elapsed,        \* state.elapsed, a double
    accumulator,    \* in lattice units
    lastTime,       \* ms
    animationId,    \* NULL or the handle of the requested frame
    \* the browser
    pending,        \* handles of the frame callbacks requested and not yet run
    now,            \* performance.now(), ms
    \* observation of the last engine operation
    lastOp,         \* its name
    lastHook,       \* the hook that ran inside it (NoHook if none did)
    updateCalls,    \* the onUpdate calls it made: <<[dt, elapsed], ...>>
    renderCalls,    \* the onRender calls it made: <<[num, den], ...>>
    \* observation of an engine that has stayed playing and was never reset
    steady,         \* TRUE until the first pause or reset
    totalUpdates,   \* onUpdate calls since construction (0 once not steady)
    totalEffective, \* sum over ticks of min(delta, 0.2 s) * speed, in
                    \* quarter lattice units (0 once not steady)
    \* the grid models
    grid,           \* the object the calls are made on: "logistic",
                    \* "diffusion" or "wear" ("none": the engine runs)
    logisticGrid,   \* a LogisticGrid: [data, r, K]
    diffusionGrid,  \* a DiffusionGrid: [data, buffer, D, absorption]
    wearGrid,       \* a WearGrid: [data, recoveryRate, durability]
    fresh,          \* the object the calls are made on, as it was
                    \* constructed
    \* observation of the last call on a grid
    gridOp,         \* [name, x, y, a, b, ret]: the call, its arguments (a:
                    \* amount, value, dt or first parameter; b: radius or
                    \* second parameter) and the value it returned
    gridOps,        \* calls made on the grid so far
    \* the Pathfinder
    pathfinder,     \* a Pathfinder: [getCost], a cost for every cell
    search,         \* the findPath call made on it: its arguments, the
                    \* locals of its loop, and the path returned
    \* the MM1Queue
    queue,          \* an MM1Queue: [capacity, bufferSize, arrivalRate,
                    \* queueLength, packetsServed, packetsDropped,
                    \* totalLatency]
    queueOp,        \* the last call on it, the call before, the arrivals
                    \* it drew and the record it returned
    queueOps,       \* calls made on the queue so far
    drive,          \* [dt, arrivalRate]: the arguments of the update call
                    \* the queue is driven with
    \* the PacketManager
    packetManager,  \* a PacketManager: [packets, nextId, maxPackets]
    packetOp,       \* the last call on it, what it returned (<<>> for null
                    \* or nothing, <<packet>> for a packet) and the ids
                    \* createPacket gave out before that call
    \* the BoidSystem
    boidSystem,     \* a BoidSystem: [boids, params]
    boidOp,         \* the last call on it, the call before, the dt of an
                    \* update, and the calls made so far
    \* the scenarios
    view,           \* what the scenario on the models has drawn: [scenario,
                    \* frames, drawn]
    app,            \* Application and its App: [created, currentScenario,
                    \* instances]
    bandwidth       \* a BandwidthScenario: [params, users, visualPackets,
                    \* starved, op]

engineVars == <<isPlaying, speed, elapsed, accumulator, lastTime, animationId,
                pending, now, lastOp, lastHook, updateCalls, renderCalls,
                steady, totalUpdates, totalEffective>>

gridVars == <<grid, logisticGrid, diffusionGrid, wearGrid, fresh, gridOp,
              gridOps>>

pathVars == <<pathfinder, search>>

queueVars == <<queue, queueOp, queueOps, drive>>

packetVars == <<packetManager, packetOp>>

boidVars == <<boidSystem, boidOp>>

sceneVars == <<view, app, bandwidth>>

\* The state of the models other than the grids, and of the scenarios.
kernelVars == <<pathVars, queueVars, packetVars, boidVars, sceneVars>>

\* What a call on the Pathfinder leaves alone, what a call on the MM1Queue
\* does, what a call on the PacketManager does, and what a call on the
\* BoidSystem does.
exceptPath ==
    <<engineVars, gridVars, queueVars, packetVars, boidVars, sceneVars>>

exceptQueue ==
    <<engineVars, gridVars, pathVars, packetVars, boidVars, sceneVars>>

exceptPackets ==
    <<engineVars, gridVars, pathVars, queueVars, boidVars, sceneVars>>

exceptBoids ==
    <<engineVars, gridVars, pathVars, queueVars, packetVars, sceneVars>>

\* animationId = null; frame handles are positive.
NULL == 0

\* The engine and the browser's frame queue as one value.
Engine ==
    [isPlaying |-> isPlaying, speed |-> speed, elapsed |-> elapsed,
     accumulator |-> accumulator, lastTime |-> lastTime,
     animationId |-> animationId, pending |-> pending]

----------------------------------------------------------------------------
(* The browser: requestAnimationFrame and cancelAnimationFrame.  A handle   *)
(* is only ever compared for identity, so a handle whose callback has run   *)
(* or was cancelled may be handed out again.                                *)

FrameHandles == 1..3

RequestAnimationFrame(e) ==
    LET id == CHOOSE i \in FrameHandles :
                  /\ i \notin e.pending
                  /\ \A j \in FrameHandles : j \notin e.pending => i <= j
    IN  [e EXCEPT !.animationId = id, !.pending = @ \cup {id}]

CancelAnimationFrame(e, id) == [e EXCEPT !.pending = @ \ {id}]

----------------------------------------------------------------------------
(* SimulationEngine, one operator per method: the engine after the call.    *)

\* Variant of Start that requests a frame even when one is requested.
StartUnguarded(e, t) == RequestAnimationFrame([e EXCEPT !.lastTime = t])

Start(e, t) ==
    IF e.animationId # NULL THEN e
    ELSE RequestAnimationFrame([e EXCEPT !.lastTime = t])

Stop(e) ==
    IF e.animationId # NULL
    THEN [CancelAnimationFrame(e, e.animationId) EXCEPT !.animationId = NULL]
    ELSE e

Play(e) == [e EXCEPT !.isPlaying = TRUE]

Pause(e) == [e EXCEPT !.isPlaying = FALSE]

TogglePlay(e) == IF e.isPlaying THEN Pause(e) ELSE Play(e)

\* Variant of SetSpeed that takes any value.
SetSpeedUnchecked(e, s) == [e EXCEPT !.speed = s]

SetSpeed(e, s) ==
    IF Includes(SPEED_OPTIONS, s) THEN [e EXCEPT !.speed = s] ELSE e

Faster(e) ==
    LET idx == IndexOf(SPEED_OPTIONS, e.speed)
    IN  IF idx < Len(SPEED_OPTIONS)
        THEN [e EXCEPT !.speed = SPEED_OPTIONS[idx + 1]]
        ELSE e

Slower(e) ==
    LET idx == IndexOf(SPEED_OPTIONS, e.speed)
    IN  IF idx > 1
        THEN [e EXCEPT !.speed = SPEED_OPTIONS[idx - 1]]
        ELSE e

\* Variant of Reset that also resumes the simulation.
ResetAndPlay(e) ==
    [e EXCEPT !.elapsed = F64Zero, !.accumulator = 0, !.isPlaying = TRUE]

Reset(e) == [e EXCEPT !.elapsed = F64Zero, !.accumulator = 0]

\* Speeds a caller passes to setSpeed: the options 0.25, 1 and 4 (the others
\* are reached by faster and slower) and three values that are no option
\* (0, 0.75 and 8).
SpeedArgs == {0, 1, 3, 4, 16, 32}

\* The calls a client can make, as [name, arg].
ControlCalls ==
    {[name |-> n, arg |-> 0] :
        n \in {"play", "pause", "togglePlay", "faster", "slower", "reset"}}
    \cup {[name |-> "setSpeed", arg |-> s] : s \in SpeedArgs}

LifecycleCalls == {[name |-> n, arg |-> 0] : n \in {"start", "stop"}}

NoCall == [name |-> "none", arg |-> 0]

Call(e, c, t) ==
    CASE c.name = "play"       -> Play(e)
      [] c.name = "pause"      -> Pause(e)
      [] c.name = "togglePlay" -> TogglePlay(e)
      [] c.name = "setSpeed"   -> SetSpeed(e, c.arg)
      [] c.name = "faster"     -> Faster(e)
      [] c.name = "slower"     -> Slower(e)
      [] c.name = "reset"      -> Reset(e)
      [] c.name = "start"      -> Start(e, t)
      [] c.name = "stop"       -> Stop(e)
      [] OTHER                 -> e

----------------------------------------------------------------------------
(* SimulationEngine.loop.  The registered callbacks run inside the loop    *)
(* and may call back into the engine: a hook [at, call] says that the      *)
(* first onUpdate call of the tick (at = "update") or its onRender call    *)
(* (at = "render") makes `call` on the engine before it returns.           *)

NoHook == [at |-> "none", call |-> NoCall]

\* The calls a callback makes in this model.
HookCalls ==
    {c \in ControlCalls : c.name \in {"pause", "reset"}} \cup LifecycleCalls

Hooks ==
    {NoHook} \cup
    {[at |-> a, call |-> c] : a \in {"update", "render"}, c \in HookCalls}

\* The engine after a callback of kind `at` has run.
Callback(e, hook, at, t) ==
    IF hook.at = at THEN Call(e, hook.call, t) ELSE e

\* Variant of RawDt without the 0.2 s guard.
RawDtUncapped(timestamp, last) == (timestamp - last) * UnitsPerMs

RawDt(timestamp, last) == Min((timestamp - last) * UnitsPerMs, SpiralCap)

EffectiveDt(rawDt, s) == (rawDt * s) \div 4

\* Variant of UpdateArgs that passes the time waiting on the accumulator.
UpdateArgsVariableDt(e) == [dt |-> e.accumulator, elapsed |-> e.elapsed]

\* What onUpdate is called with.
UpdateArgs(e) == [dt |-> FIXED_DT, elapsed |-> e.elapsed]

\* this.accumulator / FIXED_DT, as a fraction.
Alpha(acc) == [num |-> acc, den |-> FIXED_DT]

\* The argument of this.onRender?.(0).
RenderZero == [num |-> 0, den |-> 1]

\* while (this.accumulator >= FIXED_DT) { ... }
\* One pass of the loop body: onUpdate (whose hook may call into the
\* engine), then elapsed += FIXED_DT and accumulator -= FIXED_DT.
DrainStep(e, hook, t, first) ==
    LET inCall == IF first THEN Callback(e, hook, "update", t) ELSE e
    IN  [inCall EXCEPT !.elapsed = F64Add(@, FIXED_DT_F64),
                       !.accumulator = @ - FIXED_DT]

\* Variant of Drain whose loop runs while the accumulator is above FIXED_DT.
RECURSIVE DrainWhileAbove(_, _, _, _)
DrainWhileAbove(e, hook, t, calls) ==
    IF e.accumulator > FIXED_DT
    THEN The({DrainWhileAbove(after, hook, t, log) :
                 after \in {DrainStep(e, hook, t, calls = <<>>)},
                 log \in {Append(calls, UpdateArgs(e))}})
    ELSE [engine |-> e, updates |-> calls]

RECURSIVE Drain(_, _, _, _)
Drain(e, hook, t, calls) ==
    IF e.accumulator >= FIXED_DT
    THEN The({Drain(after, hook, t, log) :
                 after \in {DrainStep(e, hook, t, calls = <<>>)},
                 log \in {Append(calls, UpdateArgs(e))}})
    ELSE [engine |-> e, updates |-> calls]

\* if (!this.state.isPlaying) { this.onRender?.(0); return; }
LoopPaused(e, timestamp, hook) ==
    [engine  |-> Callback(e, hook, "render", timestamp),
     updates |-> <<>>,
     renders |-> <<RenderZero>>]

\* The rest of the loop: feed the accumulator, drain it, render.
LoopPlaying(e, rawDt, timestamp, hook) ==
    The({[engine  |-> Callback(drained.engine, hook, "render", timestamp),
          updates |-> drained.updates,
          renders |-> <<Alpha(drained.engine.accumulator)>>] :
            drained \in
                {Drain([e EXCEPT !.accumulator =
                                     @ + EffectiveDt(rawDt, e.speed)],
                       hook, timestamp, <<>>)}})

\* Variant of Loop that does not look at isPlaying.
LoopIgnoringPause(e, timestamp, hook) ==
    LET requested == RequestAnimationFrame(e)
        rawDt     == RawDt(timestamp, requested.lastTime)
        timed     == [requested EXCEPT !.lastTime = timestamp]
    IN  LoopPlaying(timed, rawDt, timestamp, hook)

\* The engine after loop(timestamp), with the callback calls it made.
Loop(e, timestamp, hook) ==
    LET requested == RequestAnimationFrame(e)
        rawDt     == RawDt(timestamp, requested.lastTime)
        timed     == [requested EXCEPT !.lastTime = timestamp]
    IN  IF ~timed.isPlaying
        THEN LoopPaused(timed, timestamp, hook)
        ELSE LoopPlaying(timed, rawDt, timestamp, hook)

----------------------------------------------------------------------------
(* Actions of the engine.                                                   *)

\* After construction (isPlaying, speed 1, nothing elapsed) and
\* setCallbacks; the loop is not running yet.
EngineInit ==
    /\ isPlaying = TRUE
    /\ speed = 4
    /\ elapsed = F64Zero
    /\ accumulator = 0
    /\ lastTime = 0
    /\ animationId = NULL
    /\ pending = {}
    /\ now = 0
    /\ lastOp = "new"
    /\ lastHook = NoHook
    /\ updateCalls = <<>>
    /\ renderCalls = <<>>
    /\ steady = TRUE
    /\ totalUpdates = 0
    /\ totalEffective = 0

\* Whether a call ends the steady regime (always playing, never reset).
Unsteadies(c, e) == c.name = "reset" \/ ~e.isPlaying

SetEngine(e) ==
    /\ isPlaying' = e.isPlaying
    /\ speed' = e.speed
    /\ elapsed' = e.elapsed
    /\ accumulator' = e.accumulator
    /\ lastTime' = e.lastTime
    /\ animationId' = e.animationId
    /\ pending' = e.pending

\* A call made by a client between two ticks.
ClientCall(c) ==
    \E e \in {Call(Engine, c, now)} :
        /\ SetEngine(e)
        /\ lastOp' = c.name
        /\ lastHook' = NoHook
        /\ updateCalls' = <<>>
        /\ renderCalls' = <<>>
        /\ steady' = (steady /\ ~Unsteadies(c, e))
        /\ totalUpdates' = IF steady' THEN totalUpdates ELSE 0
        /\ totalEffective' = IF steady' THEN totalEffective ELSE 0
        /\ now' = now
        /\ UNCHANGED <<gridVars, kernelVars>>

DoStart == ClientCall([name |-> "start", arg |-> 0])
DoStop == ClientCall([name |-> "stop", arg |-> 0])
DoPlay == ClientCall([name |-> "play", arg |-> 0])
DoPause == ClientCall([name |-> "pause", arg |-> 0])
DoTogglePlay == ClientCall([name |-> "togglePlay", arg |-> 0])
DoSetSpeed == \E s \in SpeedArgs : ClientCall([name |-> "setSpeed", arg |-> s])
DoFaster == ClientCall([name |-> "faster", arg |-> 0])
DoSlower == ClientCall([name |-> "slower", arg |-> 0])
DoReset == ClientCall([name |-> "reset", arg |-> 0])

\* The browser runs a requested frame callback d ms after the last reading
\* of the clock.
Tick ==
    \E id \in pending, d \in Deltas, hook \in Hooks :
      \E r \in {Loop([Engine EXCEPT !.pending = @ \ {id}], now + d, hook)} :
        LET timestamp == now + d
            ran == \/ hook.at = "render"
                   \/ hook.at = "update" /\ r.updates # <<>>
            h   == IF ran THEN hook ELSE NoHook
        IN  /\ timestamp <= MaxTime
            /\ SetEngine(r.engine)
            /\ now' = timestamp
            /\ lastOp' = "loop"
            /\ lastHook' = h
            /\ updateCalls' = r.updates
            /\ renderCalls' = r.renders
            /\ steady' = (steady /\ ~(ran /\ Unsteadies(h.call, r.engine)))
            /\ totalUpdates' =
                   IF steady' THEN totalUpdates + Len(r.updates) ELSE 0
            /\ totalEffective' =
                   IF steady'
                   THEN totalEffective
                        + Min((timestamp - lastTime) * UnitsPerMs, SpiralCap)
                          * speed
                   ELSE 0
            /\ UNCHANGED <<gridVars, kernelVars>>

\* Time passes while no frame is requested.
Wait ==
    \E d \in Deltas \ {0} :
        /\ pending = {}
        /\ now + d <= MaxTime
        /\ now' = now + d
        /\ lastOp' = "wait"
        /\ lastHook' = NoHook
        /\ updateCalls' = <<>>
        /\ renderCalls' = <<>>
        /\ UNCHANGED <<isPlaying, speed, elapsed, accumulator, lastTime,
                       animationId, pending, steady, totalUpdates,
                       totalEffective>>
        /\ UNCHANGED <<gridVars, kernelVars>>

\* A frame whose callbacks make no call into the engine.
PlainTick ==
    /\ pending # {}
    /\ Tick
    /\ lastHook' = NoHook

\* The calls of a client that arrive between the frames only.
FrameNext ==
    \/ DoStart \/ DoStop \/ DoPlay \/ DoPause \/ DoTogglePlay
    \/ DoSetSpeed \/ DoFaster \/ DoSlower \/ DoReset
    \/ PlainTick \/ Wait

EngineNext ==
    \/ DoStart \/ DoStop \/ DoPlay \/ DoPause \/ DoTogglePlay
    \/ DoSetSpeed \/ DoFaster \/ DoSlower \/ DoReset
    \/ Tick \/ Wait

----------------------------------------------------------------------------
(* The grid models: cells, coordinates and the values passed to them.       *)

\* new LogisticGrid(Width, Height, r, K), new DiffusionGrid(Width, Height, D,
\* absorption), new WearGrid(Width, Height, recoveryRate, durability)
Width == 2

Height == 2

\* Each grid object takes at most MaxGridOps calls.
MaxGridOps == 2

\* Indices of data (and of buffer).
Cells == 0..(Width * Height - 1)

\* Math.floor of a coordinate given in halves, and Math.ceil of a radius.
Floor(h) == h \div 2

Ceil(h) == -((-h) \div 2)

\* Whole coordinates from one left of (above) the grid to one right of
\* (below) it.
Xs == (-1)..Width

Ys == (-1)..Height

\* Coordinates in halves: -0.5, 0.5, Width - 1 and Width, and the like.
HalfXs == {-1, 1, 2 * Width - 2, 2 * Width}

HalfYs == {-1, 1, 2 * Height - 2, 2 * Height}

\* Amounts passed to consume: 2^-26, 0.25 and 2.
Amounts == {1, One \div 4, 2 * One}

\* Values passed to set: -0.25, 0.25 and 2.
Values == {-(One \div 4), One \div 4, 2 * One}

\* Amounts passed to emit and wear: 0.25, 1 and -0.25.
UnitAmounts == {One \div 4, One, -(One \div 4)}

\* Amounts passed to emitRadius and wearRadius: 1 and -0.25.
RadiusAmounts == {One, -(One \div 4)}

\* dt: 0, 0.5 and 1 and, where a claim is about every dt, -1.
Dts == {0, One \div 2, One}

AnyDts == Dts \cup {-One}

\* Radii, in halves: -1, 0, 1 and 2.
Radii == {-2, 0, 2, 4}

----------------------------------------------------------------------------
(* simulation/LogisticGrowth: logisticGrowthRate, logisticGrowthStep and    *)
(* LogisticGrid.  K is a power of two up to 1, so that N / K is exact.      *)

\* r * N * (1 - N / K); for r a power of two this is r * (N * (1 - N / K)),
\* the inner product being exact (at most 52 bits).
logisticGrowthRate(N, r, K) ==
    Scaled(Times(N, One - N * (One \div K)), r)

logisticGrowthStep(N, r, K, dt) ==
    LET dN == Scaled(logisticGrowthRate(N, r, K), dt)
    IN  MathMax(Widen(0), MathMin(Widen(K), Plus(Widen(N), dN)))

\* new LogisticGrid(Width, Height, r, K)
LogisticGrid(r, K) ==
    [data |-> [i \in Cells |-> Fround(K)], r |-> r, K |-> K]

LogisticGrid_setParams(g, r, K) == [g EXCEPT !.r = r, !.K = K]

LogisticGrid_get(g, x, y) ==
    IF x < 0 \/ x >= Width \/ y < 0 \/ y >= Height THEN 0
    ELSE g.data[y * Width + x]

LogisticGrid_set(g, x, y, value) ==
    IF x < 0 \/ x >= Width \/ y < 0 \/ y >= Height THEN g
    ELSE [g EXCEPT !.data[y * Width + x] = Fround(Max(0, Min(g.K, value)))]

\* Variant of consume that removes the whole amount.
LogisticGrid_consumeAll(g, x, y, amount) ==
    LET idx == y * Width + x
    IN  IF idx < 0 \/ idx >= Width * Height THEN [grid |-> g, consumed |-> 0]
        ELSE [grid     |-> [g EXCEPT !.data[idx] = Fround(@ - amount)],
              consumed |-> amount]

\* The grid after consume(x, y, amount), and the value returned.
LogisticGrid_consume(g, x, y, amount) ==
    LET idx == y * Width + x
    IN  IF idx < 0 \/ idx >= Width * Height THEN [grid |-> g, consumed |-> 0]
        ELSE LET current  == g.data[idx]
                 consumed == Min(current, amount)
             IN  [grid     |-> [g EXCEPT !.data[idx] =
                                             Fround(current - consumed)],
                  consumed |-> consumed]

LogisticGrid_update(g, dt) ==
    [g EXCEPT !.data =
        [i \in Cells |->
            FroundF64(logisticGrowthStep(g.data[i], g.r, g.K, dt))]]

LogisticGrid_reset(g) == [g EXCEPT !.data = [i \in Cells |-> Fround(g.K)]]

\* (r, K) passed to setParams
LogisticParams == {One \div 2, One} \X {One \div 2, One}

----------------------------------------------------------------------------
(* simulation/Diffusion: DiffusionGrid.                                     *)

\* new DiffusionGrid(Width, Height, D, absorption)
DiffusionGrid(D, absorption) ==
    [data |-> [i \in Cells |-> 0], buffer |-> [i \in Cells |-> 0],
     D |-> D, absorption |-> absorption]

DiffusionGrid_setParams(g, D, absorption) ==
    [g EXCEPT !.D = D, !.absorption = absorption]

\* x and y in halves
DiffusionGrid_get(g, x, y) ==
    LET fx == Floor(x)
        fy == Floor(y)
    IN  IF fx < 0 \/ fx >= Width \/ fy < 0 \/ fy >= Height THEN 0
        ELSE g.data[fy * Width + fx]

\* x and y in halves, amount a double
DiffusionGrid_emit(g, x, y, amount) ==
    LET fx == Floor(x)
        fy == Floor(y)
    IN  IF fx < 0 \/ fx >= Width \/ fy < 0 \/ fy >= Height THEN g
        ELSE [g EXCEPT !.data[fy * Width + fx] =
                  FroundF64(MathMin(Widen(One), Plus(Widen(@), amount)))]

\* Math.exp(-a) for a = 0, 0.5, 1 and 2, given in halves.
MathExpNeg(a) ==
    CASE a = 0 -> Widen(One)
      [] a = 1 -> F64(FALSE, <<158998, 391391, 180544>>)
      [] a = 2 -> F64(FALSE, <<96437, 407084, 979840>>)
      [] a = 4 -> F64(FALSE, <<35477, 348639, 790112>>)

\* Math.exp(-d2 / (r2 * 0.5)) for r2 = radius * radius, radius in halves;
\* -0 / 0 is NaN.
GaussianFalloff(d2, radius) ==
    IF radius = 0 THEN F64NaN
    ELSE MathExpNeg((16 * d2) \div (radius * radius))

\* The (dx, dy) that the loops of emitRadius and wearRadius visit, in the
\* order they visit them, r = Math.ceil(radius).
RECURSIVE Offsets(_, _, _)
Offsets(r, dy, dx) ==
    IF dy > r THEN <<>>
    ELSE IF dx > r THEN Offsets(r, dy + 1, -r)
    ELSE <<(<<dx, dy>>)>> \o Offsets(r, dy, dx + 1)

\* cx, cy and radius in halves, amount a cell value
RECURSIVE EmitEach(_, _, _, _, _, _)
EmitEach(g, offsets, cx, cy, radius, amount) ==
    IF offsets = <<>> THEN g
    ELSE LET dx == Head(offsets)[1]
             dy == Head(offsets)[2]
             d2 == dx * dx + dy * dy
         IN  IF 4 * d2 > radius * radius
             THEN EmitEach(g, Tail(offsets), cx, cy, radius, amount)
             ELSE The({EmitEach(h, Tail(offsets), cx, cy, radius, amount) :
                       h \in {DiffusionGrid_emit(g,
                                 2 * (Floor(cx) + dx), 2 * (Floor(cy) + dy),
                                 Scaled(GaussianFalloff(d2, radius),
                                        amount))}})

DiffusionGrid_emitRadius(g, cx, cy, radius, amount) ==
    EmitEach(g, Offsets(Ceil(radius), -Ceil(radius), -Ceil(radius)),
             cx, cy, radius, amount)

\* The value update(dt, windX, windY) writes to buffer[idx].
DiffusionCell(g, idx, dt, windX, windY) ==
    LET x  == idx % Width
        y  == idx \div Width
        c  == g.data[idx]
        cL == IF x > 0 THEN g.data[idx - 1] ELSE c
        cR == IF x < Width - 1 THEN g.data[idx + 1] ELSE c
        cT == IF y > 0 THEN g.data[idx - Width] ELSE c
        cB == IF y < Height - 1 THEN g.data[idx + Width] ELSE c
        laplacian ==
            Minus(Plus(Plus(Plus(Widen(cL), Widen(cR)), Widen(cT)),
                       Widen(cB)),
                  Scaled(Widen(c), 4 * One))
        advectionX ==
            IF windX > 0 THEN Scaled(Minus(Widen(c), Widen(cL)), windX)
            ELSE Scaled(Minus(Widen(cR), Widen(c)), windX)
        advectionY ==
            IF windY > 0 THEN Scaled(Minus(Widen(c), Widen(cT)), windY)
            ELSE Scaled(Minus(Widen(cB), Widen(c)), windY)
        dcdt ==
            Minus(Minus(Scaled(laplacian, g.D), Scaled(Widen(c), g.absorption)),
                  Plus(advectionX, advectionY))
    IN  FroundF64(MathMax(Widen(0),
                          MathMin(Widen(One),
                                  Plus(Widen(c), Scaled(dcdt, dt)))))

\* Variant of update that absorbs at the rate 0.0625 whatever rate was set.
DiffusionGrid_updateAbsorbing(g, dt, windX, windY) ==
    The({[g EXCEPT !.buffer = next, !.data = next] :
         next \in {[idx \in Cells |->
                       DiffusionCell([g EXCEPT !.absorption = One \div 16],
                                     idx, dt, windX, windY)]}})

\* Variant of the body of the loops of update that stores the new value in
\* data as well.
DiffusionGrid_stepInPlace(g, idx, dt, windX, windY) ==
    The({[g EXCEPT !.buffer[idx] = c, !.data[idx] = c] :
         c \in {DiffusionCell(g, idx, dt, windX, windY)}})

\* The body of the loops of update for the cell idx.
DiffusionGrid_step(g, idx, dt, windX, windY) ==
    The({[g EXCEPT !.buffer[idx] = c] :
         c \in {DiffusionCell(g, idx, dt, windX, windY)}})

RECURSIVE DiffusionGrid_sweep(_, _, _, _, _)
\* The loops of update, visiting the cells in the given order.
DiffusionGrid_sweep(g, order, dt, windX, windY) ==
    IF order = <<>> THEN g
    ELSE DiffusionGrid_sweep(
             DiffusionGrid_step(g, Head(order), dt, windX, windY),
             Tail(order), dt, windX, windY)

\* this.data.set(buffer)
DiffusionGrid_swap(g) == [g EXCEPT !.data = g.buffer]

\* for y, for x: idx = y * width + x
RowMajor == [i \in 1..(Width * Height) |-> i - 1]

DiffusionGrid_update(g, dt, windX, windY) ==
    DiffusionGrid_swap(DiffusionGrid_sweep(g, RowMajor, dt, windX, windY))

DiffusionGrid_reset(g) ==
    [g EXCEPT !.data = [i \in Cells |-> 0], !.buffer = [i \in Cells |-> 0]]

\* (D, absorption) passed to setParams: (0, 0), (0.125, 0.0625), (1, 1)
DiffusionParams ==
    {<<0, 0>>, <<One \div 8, One \div 16>>, <<One, One>>}

\* (windX, windY) passed to update
Winds == {<<0, 0>>, <<One, 0>>, <<-One, One>>, <<0, -One>>}

----------------------------------------------------------------------------
(* simulation/LogisticGrowth: WearGrid.                                     *)

\* new WearGrid(Width, Height, recoveryRate, durability)
WearGrid(recoveryRate, durability) ==
    [data |-> [i \in Cells |-> One],
     recoveryRate |-> recoveryRate, durability |-> durability]

WearGrid_setParams(g, recoveryRate, durability) ==
    [g EXCEPT !.recoveryRate = recoveryRate, !.durability = durability]

\* x and y in halves
WearGrid_get(g, x, y) ==
    LET fx == Floor(x)
        fy == Floor(y)
    IN  IF fx < 0 \/ fx >= Width \/ fy < 0 \/ fy >= Height THEN One
        ELSE g.data[fy * Width + fx]

\* x and y in halves, amount a double
WearGrid_wear(g, x, y, amount) ==
    LET fx == Floor(x)
        fy == Floor(y)
    IN  IF fx < 0 \/ fx >= Width \/ fy < 0 \/ fy >= Height THEN g
        ELSE LET wearAmount == Divided(amount, g.durability)
             IN  [g EXCEPT !.data[fy * Width + fx] =
                      FroundF64(MathMax(Widen(0),
                                        Minus(Widen(@), wearAmount)))]

\* 1 - d2 / r2 for r2 = radius * radius, radius in halves; 0 / 0 is NaN.
LinearFalloff(d2, radius) ==
    IF radius = 0 THEN F64NaN
    ELSE Minus(Widen(One), Divided(Widen(4 * d2 * One), radius * radius * One))

RECURSIVE WearEach(_, _, _, _, _, _)
WearEach(g, offsets, cx, cy, radius, amount) ==
    IF offsets = <<>> THEN g
    ELSE LET dx == Head(offsets)[1]
             dy == Head(offsets)[2]
             d2 == dx * dx + dy * dy
         IN  IF 4 * d2 > radius * radius
             THEN WearEach(g, Tail(offsets), cx, cy, radius, amount)
             ELSE The({WearEach(h, Tail(offsets), cx, cy, radius, amount) :
                       h \in {WearGrid_wear(g,
                                 2 * (Floor(cx) + dx), 2 * (Floor(cy) + dy),
                                 Scaled(LinearFalloff(d2, radius), amount))}})

WearGrid_wearRadius(g, cx, cy, radius, amount) ==
    WearEach(g, Offsets(Ceil(radius), -Ceil(radius), -Ceil(radius)),
             cx, cy, radius, amount)

\* The cell after update(dt).
WearCell(v, recovery) ==
    IF v # NaN /\ v < One
    THEN FroundF64(MathMin(Widen(One), Plus(Widen(v), recovery)))
    ELSE v

WearGrid_update(g, dt) ==
    [g EXCEPT !.data =
        [i \in Cells |-> WearCell(g.data[i],
                                  Scaled(Widen(g.recoveryRate), dt))]]

WearGrid_reset(g) == [g EXCEPT !.data = [i \in Cells |-> One]]

\* 0.8
Point8 == F64(FALSE, <<209715, 209715, 209728>>)

\* getPathCost(x, y, shortcutTendency), x and y in halves:
\* (1 + health * 10) * (1 - shortcutTendency * 0.8).  The health of a cell
\* is a multiple of 1/64 here, so that baseCost is base64 / 64 exactly and
\* the product is base64 * factor rounded to 53 bits, over 64.
WearGrid_getPathCost(g, x, y, shortcutTendency) ==
    LET health == WearGrid_get(g, x, y)
        base64 == 64 + 10 * (health \div 2^20)
        factor == Minus(Widen(One), Scaled(Point8, shortcutTendency))
    IN  IF health = NaN THEN F64NaN
        ELSE F64((base64 < 0) # factor.neg,
                 BigShr(F64Round(BigScale(Abs(base64), factor.mag)), 64))

\* shortcutTendency passed to getPathCost: 0, 0.5 and 1.
Tendencies == {0, One \div 2, One}

\* (recoveryRate, durability) passed to setParams: (0, 1), (0.5, 2), (1, 0.5)
WearParams == {<<0, One>>, <<One \div 2, 2 * One>>, <<One, One \div 2>>}

----------------------------------------------------------------------------
(* Actions of the grid models: one object is exercised, by the calls a      *)
(* scenario can make on it.                                                 *)

NoGridOp == [name |-> "new", x |-> 0, y |-> 0, a |-> 0, b |-> 0, ret |-> 0]

GridOp(name, x, y, a, b, ret) ==
    [name |-> name, x |-> x, y |-> y, a |-> a, b |-> b, ret |-> ret]

\* The three objects as constructed.
GridsNew ==
    /\ logisticGrid = LogisticGrid(One, One)
    /\ diffusionGrid = DiffusionGrid(One \div 8, One \div 16)
    /\ wearGrid = WearGrid(One \div 2, One)
    /\ gridOp = NoGridOp
    /\ gridOps = 0

\* One grid object, constructed with any of the parameters.
GridInit ==
    /\ EngineInit
    /\ gridOp = NoGridOp
    /\ gridOps = 0
    /\ \/ /\ grid = "logistic"
          /\ \E p \in LogisticParams : logisticGrid = LogisticGrid(p[1], p[2])
          /\ diffusionGrid = DiffusionGrid(One \div 8, One \div 16)
          /\ wearGrid = WearGrid(One \div 2, One)
          /\ fresh = logisticGrid
       \/ /\ grid = "diffusion"
          /\ logisticGrid = LogisticGrid(One, One)
          /\ \E p \in DiffusionParams :
                 diffusionGrid = DiffusionGrid(p[1], p[2])
          /\ wearGrid = WearGrid(One \div 2, One)
          /\ fresh = diffusionGrid
       \/ /\ grid = "wear"
          /\ logisticGrid = LogisticGrid(One, One)
          /\ diffusionGrid = DiffusionGrid(One \div 8, One \div 16)
          /\ \E p \in WearParams : wearGrid = WearGrid(p[1], p[2])
          /\ fresh = wearGrid

\* Whether the object exercised is of this kind and takes another call.
CanCall(kind) == grid = kind /\ gridOps < MaxGridOps

\* A call on the logistic grid that leaves it as g, recorded as op.
LogisticCall(g, op) ==
    /\ logisticGrid' = g
    /\ gridOp' = op
    /\ gridOps' = gridOps + 1
    /\ UNCHANGED <<grid, fresh, diffusionGrid, wearGrid, engineVars,
                   kernelVars>>

LogisticGet ==
    /\ CanCall("logistic")
    /\ \E x \in Xs, y \in Ys :
           LogisticCall(logisticGrid,
                        GridOp("get", x, y, 0, 0,
                               LogisticGrid_get(logisticGrid, x, y)))

LogisticSet ==
    /\ CanCall("logistic")
    /\ \E x \in Xs, y \in Ys, value \in Values :
           LogisticCall(LogisticGrid_set(logisticGrid, x, y, value),
                        GridOp("set", x, y, value, 0, 0))

LogisticConsume ==
    /\ CanCall("logistic")
    /\ \E x \in Xs, y \in Ys, amount \in Amounts :
           \E r \in {LogisticGrid_consume(logisticGrid, x, y, amount)} :
               LogisticCall(r.grid, GridOp("consume", x, y, amount, 0, r.consumed))

LogisticUpdate ==
    /\ CanCall("logistic")
    /\ \E dt \in Dts :
           \E g \in {LogisticGrid_update(logisticGrid, dt)} :
               LogisticCall(g, GridOp("update", 0, 0, dt, 0, 0))

LogisticSetParams ==
    /\ CanCall("logistic")
    /\ \E p \in LogisticParams :
           LogisticCall(LogisticGrid_setParams(logisticGrid, p[1], p[2]),
                        GridOp("setParams", 0, 0, p[1], p[2], 0))

LogisticReset ==
    /\ CanCall("logistic")
    /\ LogisticCall(LogisticGrid_reset(logisticGrid),
                    GridOp("reset", 0, 0, 0, 0, 0))

\* A call on the diffusion grid that leaves it as g, recorded as op.
DiffusionCall(g, op) ==
    /\ diffusionGrid' = g
    /\ gridOp' = op
    /\ gridOps' = gridOps + 1
    /\ UNCHANGED <<grid, fresh, logisticGrid, wearGrid, engineVars,
                   kernelVars>>

DiffusionGet ==
    /\ CanCall("diffusion")
    /\ \E x \in HalfXs, y \in HalfYs :
           DiffusionCall(diffusionGrid,
                         GridOp("get", x, y, 0, 0,
                                DiffusionGrid_get(diffusionGrid, x, y)))

DiffusionEmit ==
    /\ CanCall("diffusion")
    /\ \E x \in HalfXs, y \in HalfYs, amount \in UnitAmounts :
           \E g \in {DiffusionGrid_emit(diffusionGrid, x, y, Widen(amount))} :
               DiffusionCall(g, GridOp("emit", x, y, amount, 0, 0))

DiffusionEmitRadius ==
    /\ CanCall("diffusion")
    /\ \E cx \in HalfXs, cy \in HalfYs, radius \in Radii, amount \in RadiusAmounts :
           \E g \in {DiffusionGrid_emitRadius(diffusionGrid, cx, cy, radius,
                                              amount)} :
               DiffusionCall(g, GridOp("emitRadius", cx, cy, amount, radius, 0))

DiffusionUpdate ==
    /\ CanCall("diffusion")
    /\ \E dt \in AnyDts, wind \in Winds :
           \E g \in {DiffusionGrid_update(diffusionGrid, dt, wind[1], wind[2])} :
               DiffusionCall(g, GridOp("update", wind[1], wind[2], dt, 0, 0))

DiffusionSetParams ==
    /\ CanCall("diffusion")
    /\ \E p \in DiffusionParams :
           DiffusionCall(DiffusionGrid_setParams(diffusionGrid, p[1], p[2]),
                         GridOp("setParams", 0, 0, p[1], p[2], 0))

DiffusionReset ==
    /\ CanCall("diffusion")
    /\ DiffusionCall(DiffusionGrid_reset(diffusionGrid),
                     GridOp("reset", 0, 0, 0, 0, 0))

\* A call on the wear grid that leaves it as g, recorded as op.
WearCall(g, op) ==
    /\ wearGrid' = g
    /\ gridOp' = op
    /\ gridOps' = gridOps + 1
    /\ UNCHANGED <<grid, fresh, logisticGrid, diffusionGrid, engineVars,
                   kernelVars>>

WearGet ==
    /\ CanCall("wear")
    /\ \E x \in HalfXs, y \in HalfYs :
           WearCall(wearGrid,
                    GridOp("get", x, y, 0, 0, WearGrid_get(wearGrid, x, y)))

WearWear ==
    /\ CanCall("wear")
    /\ \E x \in HalfXs, y \in HalfYs, amount \in UnitAmounts :
           \E g \in {WearGrid_wear(wearGrid, x, y, Widen(amount))} :
               WearCall(g, GridOp("wear", x, y, amount, 0, 0))

WearWearRadius ==
    /\ CanCall("wear")
    /\ \E cx \in HalfXs, cy \in HalfYs, radius \in Radii, amount \in RadiusAmounts :
           \E g \in {WearGrid_wearRadius(wearGrid, cx, cy, radius, amount)} :
               WearCall(g, GridOp("wearRadius", cx, cy, amount, radius, 0))

WearUpdate ==
    /\ CanCall("wear")
    /\ \E dt \in AnyDts :
           \E g \in {WearGrid_update(wearGrid, dt)} :
               WearCall(g, GridOp("update", 0, 0, dt, 0, 0))

WearSetParams ==
    /\ CanCall("wear")
    /\ \E p \in WearParams :
           WearCall(WearGrid_setParams(wearGrid, p[1], p[2]),
                    GridOp("setParams", 0, 0, p[1], p[2], 0))

WearGetPathCost ==
    /\ CanCall("wear")
    /\ \E x \in HalfXs, y \in HalfYs, shortcutTendency \in Tendencies :
           WearCall(wearGrid,
                    GridOp("getPathCost", x, y, shortcutTendency, 0,
                           WearGrid_getPathCost(wearGrid, x, y,
                                                shortcutTendency)))

WearReset ==
    /\ CanCall("wear")
    /\ WearCall(WearGrid_reset(wearGrid), GridOp("reset", 0, 0, 0, 0, 0))

GridNext ==
    \/ LogisticGet \/ LogisticSet \/ LogisticConsume \/ LogisticUpdate
    \/ LogisticSetParams \/ LogisticReset
    \/ DiffusionGet \/ DiffusionEmit \/ DiffusionEmitRadius
    \/ DiffusionUpdate \/ DiffusionSetParams \/ DiffusionReset
    \/ WearGet \/ WearWear \/ WearWearRadius \/ WearUpdate
    \/ WearSetParams \/ WearReset \/ WearGetPathCost

----------------------------------------------------------------------------
(* simulation/Pathfinding: Pathfinder.  The arguments of findPath are given *)
(* in halves and floored by it; g, h and f are doubles that are never       *)
(* negative, kept as their magnitudes.  A terrain cost is a power of two,   *)
(* so that moveCost * terrainCost is exact.                                 *)

\* new Pathfinder(PathWidth, PathHeight, getCost)
PathWidth == 4

PathHeight == 2

\* calls made on an MM1Queue
MaxQueueOps == 3

\* update calls an MM1Queue is driven with
MaxDrives == 4

\* the largest maxPackets of a PacketManager
MaxPackets == 2

\* createPacket calls between two resets of a PacketManager
MaxPacketId == 3

\* boids of a BoidSystem, dead ones included
MaxBoids == 2

\* calls made on a BoidSystem
MaxBoidOps == 3

PathCells == (0..(PathWidth - 1)) \X (0..(PathHeight - 1))

\* sx, gx and sy, gy passed to findPath, in halves: from -0.5 to PathWidth
\* and to PathHeight.
PathXs == {-1, 0, 2, 3, 4, 2 * PathWidth - 2, 2 * PathWidth}

PathYs == {-1, 0, 1, 2 * PathHeight - 2, 2 * PathHeight}

\* getCost: the same cost everywhere
UniformCost(c) == [p \in PathCells |-> c]

\* getCost: 2 inside row 0, 1 elsewhere
RidgeCost ==
    [p \in PathCells |->
        IF p[2] = 0 /\ p[1] > 0 /\ p[1] < PathWidth - 1 THEN 2 * One ELSE One]

\* getCost: 0.25 in the last row, 1 elsewhere
TrailCost ==
    [p \in PathCells |-> IF p[2] = PathHeight - 1 THEN One \div 4 ELSE One]

\* 1 + 2^-17
VergeToll == One + One \div 2^17

\* getCost: 1 + 2^-17 in the last cell but one of the last row, 1 elsewhere
VergeCost ==
    [p \in PathCells |->
        IF p = <<PathWidth - 2, PathHeight - 1>> THEN VergeToll ELSE One]

\* The cost functions a Pathfinder is made with.
CostFunctions ==
    {UniformCost(One \div 4), UniformCost(One), UniformCost(2 * One),
     RidgeCost, TrailCost, VergeCost}

Pathfinder_isValid(x, y) ==
    x >= 0 /\ x < PathWidth /\ y >= 0 /\ y < PathHeight

\* Math.sqrt of a sum of two squares
MathSqrt(d2) ==
    CASE d2 = 0 -> <<0, 0, 0>>
      [] d2 = 1 -> <<262144, 0, 0>>
      [] d2 = 2 -> <<370727, 629244, 979776>>
      [] d2 = 4 -> <<524288, 0, 0>>
      [] d2 = 5 -> <<586171, 842943, 676864>>
      [] d2 = 8 -> <<741455, 209913, 910976>>
      [] d2 = 9 -> <<786432, 0, 0>>
      [] d2 = 10 -> <<828972, 120530, 895360>>
      [] d2 = 13 -> <<945173, 664330, 850304>>
      [] d2 = 16 -> <<1048576, 0, 0>>
      [] d2 = 17 -> <<1080847, 420606, 853760>>
      [] d2 = 18 -> <<1112182, 839158, 841984>>
      [] d2 = 20 -> <<1172343, 637311, 305152>>
      [] d2 = 25 -> <<1310720, 0, 0>>

Pathfinder_heuristic(x1, y1, x2, y2) ==
    MathSqrt((x2 - x1) * (x2 - x1) + (y2 - y1) * (y2 - y1))

\* 1.414 and 1
DiagonalMoveCost == <<370671, 645922, 855616>>

StraightMoveCost == <<262144, 0, 0>>

\* Variant of StepCost with a diagonal step at a quarter of a straight one.
StepCostCheapDiagonal(dx, dy, terrainCost) ==
    LET quarter == IF dx # 0 /\ dy # 0 THEN 4 ELSE 1
    IN  Scaled(F64(FALSE, StraightMoveCost), terrainCost \div quarter).mag

\* 1.414 * (1 + 2^-17), as the double product rounds it
DiagonalVergeCost == <<370674, 465567, 780096>>

\* moveCost * terrainCost for a step by (dx, dy): a product with 1 is the
\* terrain cost, a product of 1.414 with a power of two is exact.
StepCost(dx, dy, terrainCost) ==
    IF dx # 0 /\ dy # 0
    THEN IF terrainCost = VergeToll THEN DiagonalVergeCost
         ELSE Scaled(F64(FALSE, DiagonalMoveCost), terrainCost).mag
    ELSE Widen(terrainCost).mag

\* a < b for magnitudes
BigLess(a, b) == BigLe(a, b) /\ a # b

\* A PathNode; parent is <<>> for null, else <<the parent node>>.
PathNode(x, y, g, h, parent) ==
    [x |-> x, y |-> y, g |-> g, h |-> h, f |-> F64Add(g, h),
     parent |-> parent]

RECURSIVE InsertByF(_, _)
\* A node put into a sequence sorted by f, behind the nodes of no greater f.
InsertByF(sorted, node) ==
    IF sorted = <<>> THEN <<node>>
    ELSE IF BigLe(Head(sorted).f, node.f)
         THEN <<Head(sorted)>> \o InsertByF(Tail(sorted), node)
         ELSE <<node>> \o sorted

RECURSIVE SortByF(_)
\* openSet.sort((a, b) => a.f - b.f): a stable sort
SortByF(nodes) ==
    IF nodes = <<>> THEN <<>>
    ELSE InsertByF(SortByF(SubSeq(nodes, 1, Len(nodes) - 1)),
                   nodes[Len(nodes)])

\* openSet.findIndex((n) => n.x === nx && n.y === ny), from 1; 0 for -1
FindIndex(openSet, nx, ny) ==
    LET found == {i \in 1..Len(openSet) :
                     openSet[i].x = nx /\ openSet[i].y = ny}
    IN  IF found = {} THEN 0
        ELSE CHOOSE i \in found : \A j \in found : i <= j

\* The eight steps, in the order the loop takes them.
Directions ==
    <<<<0, -1>>, <<0, 1>>, <<-1, 0>>, <<1, 0>>,
      <<-1, -1>>, <<-1, 1>>, <<1, -1>>, <<1, 1>>>>

\* Variant of Visit that pushes the neighbour without looking for it in
\* openSet.
VisitPushing(p, openSet, closedSet, current, d, gx, gy) ==
    LET nx == current.x + d[1]
        ny == current.y + d[2]
    IN  IF ~Pathfinder_isValid(nx, ny) \/ <<nx, ny>> \in closedSet
        THEN openSet
        ELSE LET terrainCost == p.getCost[<<nx, ny>>]
                 g == F64Add(current.g, StepCost(d[1], d[2], terrainCost))
                 h == Pathfinder_heuristic(nx, ny, gx, gy)
             IN  Append(openSet, PathNode(nx, ny, g, h, <<current>>))

\* openSet after the body of the neighbour loop for the step d.
Visit(p, openSet, closedSet, current, d, gx, gy) ==
    LET nx == current.x + d[1]
        ny == current.y + d[2]
    IN  IF ~Pathfinder_isValid(nx, ny) \/ <<nx, ny>> \in closedSet
        THEN openSet
        ELSE LET terrainCost == p.getCost[<<nx, ny>>]
                 g == F64Add(current.g, StepCost(d[1], d[2], terrainCost))
                 h == Pathfinder_heuristic(nx, ny, gx, gy)
                 existingIdx == FindIndex(openSet, nx, ny)
             IN  IF existingIdx = 0
                 THEN Append(openSet, PathNode(nx, ny, g, h, <<current>>))
                 ELSE IF BigLess(g, openSet[existingIdx].g)
                      THEN [openSet EXCEPT ![existingIdx] =
                               [@ EXCEPT !.g = g, !.f = F64Add(g, h),
                                         !.parent = <<current>>]]
                      ELSE openSet

RECURSIVE Explore(_, _, _, _, _, _, _)
\* openSet after the neighbour loop from its i-th step on.
Explore(p, openSet, closedSet, current, i, gx, gy) ==
    IF i > Len(Directions) THEN openSet
    ELSE Explore(p,
                 The({Visit(p, openSet, closedSet, current, Directions[i],
                            gx, gy)}),
                 closedSet, current, i + 1, gx, gy)

RECURSIVE Pathfinder_reconstructPath(_)
Pathfinder_reconstructPath(node) ==
    IF node.parent = <<>> THEN <<<<node.x, node.y>>>>
    ELSE Append(Pathfinder_reconstructPath(node.parent[1]),
                <<node.x, node.y>>)

\* No findPath call made yet.
NoSearch ==
    [status |-> "idle", sx |-> 0, sy |-> 0, gx |-> 0, gy |-> 0,
     openSet |-> <<>>, closedSet |-> {}, iterations |-> 0, path |-> <<>>]

\* A findPath call that has returned path.
Returned(s, path) == [s EXCEPT !.status = "returned", !.path = path]

\* findPath(sx, sy, gx, gy) up to its loop (or its return before the loop);
\* the arguments in halves.
Pathfinder_findPath(sx, sy, gx, gy) ==
    LET fsx == Floor(sx)
        fsy == Floor(sy)
        fgx == Floor(gx)
        fgy == Floor(gy)
        s   == [NoSearch EXCEPT !.sx = fsx, !.sy = fsy, !.gx = fgx,
                                !.gy = fgy]
    IN  IF fsx = fgx /\ fsy = fgy THEN Returned(s, <<<<fsx, fsy>>>>)
        ELSE IF ~Pathfinder_isValid(fsx, fsy) \/ ~Pathfinder_isValid(fgx, fgy)
             THEN Returned(s, <<>>)
             ELSE [s EXCEPT
                      !.status = "loop",
                      !.openSet =
                          <<PathNode(fsx, fsy, F64Zero,
                                     Pathfinder_heuristic(fsx, fsy, fgx, fgy),
                                     <<>>)>>]

\* maxIterations
MaxIterations == PathWidth * PathHeight

\* openSet.length > 0 && iterations++ < maxIterations
\* Variant of LoopCondition with half the budget.
LoopConditionHalved(s) ==
    s.openSet # <<>> /\ s.iterations < MaxIterations \div 2

LoopCondition(s) == s.openSet # <<>> /\ s.iterations < MaxIterations

\* One iteration of the loop of findPath.
Pathfinder_iterate(p, s) ==
    LET sorted     == SortByF(s.openSet)
        current    == Head(sorted)
        rest       == Tail(sorted)
        currentKey == <<current.x, current.y>>
        closed     == s.closedSet \cup {currentKey}
        t          == [s EXCEPT !.iterations = @ + 1, !.openSet = rest]
    IN  IF currentKey \in s.closedSet THEN t
        ELSE IF current.x = s.gx /\ current.y = s.gy
             THEN Returned([t EXCEPT !.closedSet = closed],
                           Pathfinder_reconstructPath(current))
             ELSE [t EXCEPT
                      !.closedSet = closed,
                      !.openSet = Explore(p, rest, closed, current, 1,
                                          s.gx, s.gy)]

\* The loop left because its condition fails: return [].
Pathfinder_giveUp(s) ==
    Returned([s EXCEPT !.iterations =
                          IF s.openSet # <<>> THEN @ + 1 ELSE @],
             <<>>)

----------------------------------------------------------------------------
(* Actions of the Pathfinder: one findPath call, its loop an iteration at a *)
(* time.                                                                    *)

\* new Pathfinder(PathWidth, PathHeight, getCost), no call made yet.
PathfinderNew(getCost) ==
    /\ pathfinder = [getCost |-> getCost]
    /\ search = NoSearch

PathIdle == PathfinderNew(UniformCost(One))

PathInit ==
    /\ grid = "path"
    /\ \E getCost \in CostFunctions : PathfinderNew(getCost)

\* The call of findPath, up to its loop.
FindPath ==
    /\ grid = "path"
    /\ search.status = "idle"
    /\ \E sx \in PathXs, sy \in PathYs, gx \in PathXs, gy \in PathYs :
           search' = Pathfinder_findPath(sx, sy, gx, gy)
    /\ UNCHANGED <<pathfinder, exceptPath>>

\* The test of the loop and, as it turns out, an iteration or the return
\* behind the loop.
FindPathStep ==
    /\ grid = "path"
    /\ search.status = "loop"
    /\ \E s \in {IF LoopCondition(search)
                  THEN Pathfinder_iterate(pathfinder, search)
                  ELSE Pathfinder_giveUp(search)} : search' = s
    /\ UNCHANGED <<pathfinder, exceptPath>>

PathNext == FindPath \/ FindPathStep

----------------------------------------------------------------------------
(* MM1Queue (simulation/Pathfinding.ts).  Its numbers are doubles; the      *)
(* model holds capacity, bufferSize, arrivalRate, dt, queueLength and the   *)
(* two packet counters in quarters, and totalLatency in 64ths.  The rates   *)
(* and time steps used are multiples of 1/2 and max(1, capacity) is a power *)
(* of two, so every product, sum and quotient of update is a multiple of    *)
(* its unit and is exact in double arithmetic.                              *)

\* 1 in quarters
Whole == 2 ^ 2

QueueCapacities == {0, Whole \div 2, 2 * Whole, 4 * Whole}

QueueBufferSizes == {0, Whole, 2 * Whole, 5 * Whole}

QueueRates == {0, 3 * (Whole \div 2), 3 * Whole, 16 * Whole}

QueueDts == {0, Whole \div 2, Whole}

\* new MM1Queue(capacity, bufferSize)
MM1Queue(capacity, bufferSize) ==
    [capacity |-> capacity, bufferSize |-> bufferSize, arrivalRate |-> 0,
     queueLength |-> 0, packetsServed |-> 0, packetsDropped |-> 0,
     totalLatency |-> 0]

MM1Queue_setParams(q, capacity, bufferSize) ==
    [q EXCEPT !.capacity = capacity, !.bufferSize = bufferSize]

\* The product of two numbers held in quarters, in quarters.
QueueTimes(a, b) == (a * b) \div Whole

\* Math.floor of a number held in quarters, in quarters.
QueueFloor(a) == (a \div Whole) * Whole

\* The arrivals update can draw for arrivalRate * dt: Math.random() is below
\* the fractional part or it is not, and it is never below 0.
Arrivals(expectedArrivals) ==
    {QueueFloor(expectedArrivals)} \cup
    IF expectedArrivals % Whole # 0
    THEN {QueueFloor(expectedArrivals) + Whole}
    ELSE {}

\* Variant of update that keeps the overflow in the queue.
MM1Queue_updateUnbounded(q, dt, arrivalRate, arrivals) ==
    LET maxService  == QueueTimes(q.capacity, dt)
        served      == Min(q.queueLength + arrivals, maxService)
        queueLength == Max(0, q.queueLength + arrivals - served)
        latency     == (queueLength * Whole * Whole) \div Max(Whole, q.capacity)
    IN  [queue |-> [q EXCEPT !.arrivalRate = arrivalRate,
                             !.queueLength = queueLength,
                             !.packetsServed = @ + served,
                             !.totalLatency = @ + served * latency],
         served |-> QueueFloor(served),
         dropped |-> 0,
         queueLength |-> queueLength]

\* update(dt, arrivalRate) with the arrivals drawn: the queue it leaves and
\* the record it returns.
MM1Queue_update(q, dt, arrivalRate, arrivals) ==
    LET maxService     == QueueTimes(q.capacity, dt)
        served         == Min(q.queueLength + arrivals, maxService)
        newQueueLength == q.queueLength + arrivals - served
        overflow       == newQueueLength > q.bufferSize
        dropped        == IF overflow THEN newQueueLength - q.bufferSize ELSE 0
        queueLength    == IF overflow THEN q.bufferSize
                          ELSE Max(0, newQueueLength)
        \* queueLength / Math.max(1, capacity), in 16ths
        latency        == (queueLength * Whole * Whole) \div Max(Whole, q.capacity)
    IN  [queue |-> [q EXCEPT !.arrivalRate = arrivalRate,
                             !.queueLength = queueLength,
                             !.packetsServed = @ + served,
                             !.packetsDropped = @ + dropped,
                             !.totalLatency = @ + served * latency],
         served |-> QueueFloor(served),
         dropped |-> dropped,
         queueLength |-> queueLength]

\* Variant of reset that leaves the queue as long as it is.
MM1Queue_resetCounters(q) ==
    [q EXCEPT !.packetsServed = 0, !.packetsDropped = 0, !.totalLatency = 0,
              !.arrivalRate = 0]

MM1Queue_reset(q) ==
    [q EXCEPT !.queueLength = 0, !.packetsServed = 0, !.packetsDropped = 0,
              !.totalLatency = 0, !.arrivalRate = 0]

----------------------------------------------------------------------------
(* Actions of the MM1Queue: any calls on one queue ("queue"), or the same   *)
(* update(dt, arrivalRate) call over and over ("drive").                    *)

\* No call made yet.
NoQueueOp ==
    [name |-> "new", prev |-> "new", dt |-> 0, arrivalRate |-> 0,
     arrivals |-> 0, served |-> 0, dropped |-> 0, queueLength |-> 0]

NoDrive == [dt |-> 0, arrivalRate |-> 0]

\* A queue as constructed, no call made on it.
QueueNew(capacity, bufferSize) ==
    /\ queue = MM1Queue(capacity, bufferSize)
    /\ queueOp = NoQueueOp
    /\ queueOps = 0

QueueIdle == QueueNew(4 * Whole, 2 * Whole) /\ drive = NoDrive

QueueInit ==
    /\ grid = "queue"
    /\ \E capacity \in QueueCapacities, bufferSize \in QueueBufferSizes :
           QueueNew(capacity, bufferSize)
    /\ drive = NoDrive
    /\ fresh = queue

\* The call of update(dt, arrivalRate) and what it leaves and returns.
QueueUpdated(dt, arrivalRate) ==
    /\ \E arrivals \in Arrivals(QueueTimes(arrivalRate, dt)) :
           LET r == MM1Queue_update(queue, dt, arrivalRate, arrivals)
           IN  /\ queue' = r.queue
               /\ queueOp' = [name |-> "update", prev |-> queueOp.name,
                              dt |-> dt,
                              arrivalRate |-> arrivalRate,
                              arrivals |-> arrivals, served |-> r.served,
                              dropped |-> r.dropped,
                              queueLength |-> r.queueLength]
    /\ queueOps' = queueOps + 1
    /\ UNCHANGED <<drive, exceptQueue>>

QueueUpdate ==
    /\ grid = "queue"
    /\ queueOps < MaxQueueOps
    /\ \E dt \in QueueDts, arrivalRate \in QueueRates :
           QueueUpdated(dt, arrivalRate)

QueueSetParams ==
    /\ grid = "queue"
    /\ queueOps < MaxQueueOps
    /\ \E capacity \in QueueCapacities, bufferSize \in QueueBufferSizes :
           queue' = MM1Queue_setParams(queue, capacity, bufferSize)
    /\ queueOp' = [NoQueueOp EXCEPT !.name = "setParams",
                                    !.prev = queueOp.name]
    /\ queueOps' = queueOps + 1
    /\ UNCHANGED <<drive, exceptQueue>>

QueueReset ==
    /\ grid = "queue"
    /\ queueOps < MaxQueueOps
    /\ queue' = MM1Queue_reset(queue)
    /\ queueOp' = [NoQueueOp EXCEPT !.name = "reset", !.prev = queueOp.name]
    /\ queueOps' = queueOps + 1
    /\ UNCHANGED <<drive, exceptQueue>>

QueueNext == QueueUpdate \/ QueueSetParams \/ QueueReset

\* A queue as constructed and the update(dt, arrivalRate) call it is driven
\* with.
DriveInit ==
    /\ grid = "drive"
    /\ \E capacity \in QueueCapacities, bufferSize \in QueueBufferSizes :
           QueueNew(capacity, bufferSize)
    /\ \E dt \in QueueDts, arrivalRate \in QueueRates :
           drive = [dt |-> dt, arrivalRate |-> arrivalRate]
    /\ fresh = queue

QueueDrive ==
    /\ grid = "drive"
    /\ queueOps < MaxDrives
    /\ QueueUpdated(drive.dt, drive.arrivalRate)

----------------------------------------------------------------------------
(* PacketManager (simulation/Pathfinding.ts): a pool of at most maxPackets  *)
(* Packet records [id, source, size, createdAt, position, state], in the    *)
(* order of their creation.  position is held in halves.                    *)

PacketStates == {"queued", "transmitting", "delivered", "dropped"}

Terminal == {"delivered", "dropped"}

\* new PacketManager(maxPackets)
PacketManager(maxPackets) ==
    [packets |-> <<>>, nextId |-> 0, maxPackets |-> maxPackets]

\* packets.findIndex(test) and the index of packets.find(test), 0 for
\* none, given the indices of the packets that pass the test.
FirstIndex(passing) ==
    IF passing = {} THEN 0
    ELSE CHOOSE i \in passing : \A j \in passing : i <= j

\* packets.splice(idx, 1)
Splice(packets, idx) ==
    [i \in 1..(Len(packets) - 1) |->
        IF i < idx THEN packets[i] ELSE packets[i + 1]]

IsTerminal(p) == p.state \in Terminal

\* Variant of createPacket that evicts the last terminal packet of the pool.
PacketManager_createPacketEvictLast(pm, source, size, time) ==
    LET full   == Len(pm.packets) >= pm.maxPackets
        last   == {i \in 1..Len(pm.packets) :
                      /\ IsTerminal(pm.packets[i])
                      /\ \A j \in (i + 1)..Len(pm.packets) :
                             ~IsTerminal(pm.packets[j])}
        kept   == IF full /\ last # {} THEN Splice(pm.packets, The(last))
                  ELSE pm.packets
        packet == [id |-> pm.nextId, source |-> source, size |-> size,
                   createdAt |-> time, position |-> 0, state |-> "queued"]
    IN  IF full /\ last = {}
        THEN [manager |-> pm, ret |-> <<>>]
        ELSE [manager |-> [pm EXCEPT !.packets = Append(kept, packet),
                                     !.nextId = @ + 1],
              ret |-> <<packet>>]

\* createPacket(source, size, time): the manager it leaves and the packet
\* it returns, <<>> for null.
PacketManager_createPacket(pm, source, size, time) ==
    LET full   == Len(pm.packets) >= pm.maxPackets
        idx    == FirstIndex({i \in 1..Len(pm.packets) :
                                 IsTerminal(pm.packets[i])})
        kept   == IF full THEN Splice(pm.packets, idx) ELSE pm.packets
        packet == [id |-> pm.nextId, source |-> source, size |-> size,
                   createdAt |-> time, position |-> 0, state |-> "queued"]
    IN  IF full /\ idx = 0
        THEN [manager |-> pm, ret |-> <<>>]
        ELSE [manager |-> [pm EXCEPT !.packets = Append(kept, packet),
                                     !.nextId = @ + 1],
              ret |-> <<packet>>]

\* Object.assign(packet, updates)
ObjectAssign(packet, updates) ==
    [f \in DOMAIN packet |->
        IF f \in DOMAIN updates THEN updates[f] ELSE packet[f]]

\* Variant of updatePacket that assigns to every packet of the pool.
PacketManager_updatePacketAll(pm, id, updates) ==
    [pm EXCEPT !.packets =
        [i \in 1..Len(pm.packets) |-> ObjectAssign(pm.packets[i], updates)]]

\* updatePacket(id, updates): the first packet of that id takes the updates.
PacketManager_updatePacket(pm, id, updates) ==
    LET idx == FirstIndex({i \in 1..Len(pm.packets) :
                              pm.packets[i].id = id})
    IN  IF idx = 0 THEN pm
        ELSE [pm EXCEPT !.packets[idx] = ObjectAssign(@, updates)]

\* removeDelivered() for state = "delivered", removeDropped() for "dropped":
\* the manager it leaves and the packets it returns.
PacketManager_remove(pm, state) ==
    LET Gone(p) == p.state = state
        Stays(p) == p.state # state
    IN  [manager |-> [pm EXCEPT !.packets = SelectSeq(@, Stays)],
         ret |-> SelectSeq(pm.packets, Gone)]

PacketManager_reset(pm) == [pm EXCEPT !.packets = <<>>, !.nextId = 0]

----------------------------------------------------------------------------
(* Actions of the PacketManager.                                            *)

PoolSizes == 1..MaxPackets

PacketTimes == {0, 1}

PacketPositions == {0, 1, 2}

\* The updates updatePacket is called with: a state or a position.
PacketUpdates ==
    {[state |-> s] : s \in PacketStates} \cup
    {[position |-> x] : x \in PacketPositions}

\* No call made yet, no id given out.
NoPacketOp == [name |-> "new", ret |-> <<>>, issued |-> {}]

PacketsNew(maxPackets) ==
    /\ packetManager = PacketManager(maxPackets)
    /\ packetOp = NoPacketOp

PacketsIdle == PacketsNew(MaxPackets)

PacketInit ==
    /\ grid = "packets"
    /\ \E maxPackets \in PoolSizes : PacketsNew(maxPackets)
    /\ fresh = packetManager

\* The call recorded: its name, what it returned, and the ids given out so
\* far, before this call.
PacketCall(name, ret) ==
    /\ packetOp' = [name |-> name, ret |-> ret,
                    issued |-> packetOp.issued \cup
                               (IF packetOp.name = "createPacket"
                                THEN {packetOp.ret[i].id : i \in 1..Len(packetOp.ret)}
                                ELSE {})]
    /\ UNCHANGED exceptPackets

CreatePacket ==
    /\ grid = "packets"
    /\ packetManager.nextId < MaxPacketId
    /\ \E time \in PacketTimes :
           LET r == PacketManager_createPacket(packetManager, 0, 1, time)
           IN  /\ packetManager' = r.manager
               /\ PacketCall("createPacket", r.ret)

UpdatePacket ==
    /\ grid = "packets"
    /\ \E id \in 0..MaxPacketId, updates \in PacketUpdates :
           /\ packetManager' =
                  PacketManager_updatePacket(packetManager, id, updates)
           /\ PacketCall("updatePacket", <<>>)

RemoveDelivered ==
    /\ grid = "packets"
    /\ LET r == PacketManager_remove(packetManager, "delivered")
       IN  /\ packetManager' = r.manager
           /\ PacketCall("removeDelivered", r.ret)

RemoveDropped ==
    /\ grid = "packets"
    /\ LET r == PacketManager_remove(packetManager, "dropped")
       IN  /\ packetManager' = r.manager
           /\ PacketCall("removeDropped", r.ret)

PacketReset ==
    /\ grid = "packets"
    /\ packetManager' = PacketManager_reset(packetManager)
    /\ PacketCall("reset", <<>>)

PacketNext ==
    \/ CreatePacket
    \/ UpdatePacket
    \/ RemoveDelivered
    \/ RemoveDropped
    \/ PacketReset

----------------------------------------------------------------------------
(* BoidSystem (simulation/Boids).  The model follows boids on the x axis:   *)
(* spawn draws 0.5 for the y and z of every position and velocity, which    *)
(* leaves them 0 for good, so a vector is its x, its length |x| and its     *)
(* unit vector the sign of x.  Numbers are held in multiples of 2^-10; the  *)
(* values used keep every sum and product of update on that lattice.        *)

BoidOne == 2 ^ 10

\* DEFAULT_BOID_PARAMS but for maxForce: 0.3 is not on the lattice, and
\* every system of the model is constructed with a maxForce of its own.
DEFAULT_BOID_PARAMS ==
    [separationWeight |-> 3 * (BoidOne \div 2),
     alignmentWeight  |-> BoidOne,
     cohesionWeight   |-> BoidOne,
     separationRadius |-> 2 * BoidOne,
     perceptionRadius |-> 5 * BoidOne,
     maxSpeed         |-> 4 * BoidOne,
     boundarySize     |-> 30 * BoidOne,
     boundaryForce    |-> BoidOne \div 2]

\* { ...a, ...b }
Spread(a, b) ==
    [f \in DOMAIN a \cup DOMAIN b |-> IF f \in DOMAIN b THEN b[f] ELSE a[f]]

\* new BoidSystem(params)
BoidSystem(params) ==
    [boids |-> <<>>, params |-> Spread(DEFAULT_BOID_PARAMS, params)]

BoidSystem_setParams(b, params) == [b EXCEPT !.params = Spread(@, params)]

\* The product of two numbers of the lattice.
BoidTimes(a, b) == (a * b) \div BoidOne

\* spawn(count, bounds) for a box of the given centre and size on the x
\* axis, with the Math.random() draws of each boid: draws[i][1] for its
\* position, draws[i][2] for its velocity.
BoidSystem_spawn(b, count, center, size, draws) ==
    [b EXCEPT !.boids = @ \o
        [i \in 1..count |->
            [position     |-> center +
                              BoidTimes(draws[i][1] - BoidOne \div 2, size),
             velocity     |-> BoidTimes((draws[i][2] - BoidOne \div 2) * 2,
                                        BoidTimes(b.params.maxSpeed,
                                                  BoidOne \div 2)),
             acceleration |-> 0,
             alive        |-> TRUE]]]

\* Indices of the boids that are alive.
AliveBoids(b) == {i \in 1..Len(b.boids) : b.boids[i].alive}

\* The sets of boids remove(count) can mark dead, as Math.random() falls.
Removable(b, count) ==
    {dead \in SUBSET AliveBoids(b) :
        Cardinality(dead) = Max(0, Min(count, Cardinality(AliveBoids(b))))}

\* remove(count), the boids of dead being the ones drawn.
BoidSystem_remove(b, dead) ==
    [b EXCEPT !.boids =
        [i \in 1..Len(@) |->
            IF i \in dead THEN [@[i] EXCEPT !.alive = FALSE] ELSE @[i]]]

Sign(x) == IF x > 0 THEN 1 ELSE IF x < 0 THEN -1 ELSE 0

RECURSIVE SumOf(_, _)
\* The sum of f over the set S.
SumOf(f, S) ==
    IF S = {} THEN 0 ELSE LET j == The(S) IN f[j] + SumOf(f, S \ {j})

RECURSIVE ProductOf(_, _)
\* The product of f over the set S.
ProductOf(f, S) ==
    IF S = {} THEN 1 ELSE LET j == The(S) IN f[j] * ProductOf(f, S \ {j})

BoidSystem_limitForce(b, force) ==
    IF Abs(force) > b.params.maxForce
    THEN Sign(force) * b.params.maxForce
    ELSE force

\* The other boids alive at a distance d of boid i with 0 < d < radius.
Neighbours(b, i, radius) ==
    {j \in AliveBoids(b) \ {i} :
        LET d == Abs(b.boids[i].position - b.boids[j].position)
        IN  d > 0 /\ d < radius}

\* steer.normalize().multiplyScalar(maxSpeed), steer.sub(boid.velocity) and
\* limitForce(steer), for a steer of the given sign.
Steered(b, i, sign) ==
    BoidSystem_limitForce(b, sign * b.params.maxSpeed - b.boids[i].velocity)

\* The sum of the unit vectors from the neighbours, each divided by its
\* distance, has the sign of that sum brought to a common denominator.
BoidSystem_calculateSeparation(b, i) ==
    LET near == Neighbours(b, i, b.params.separationRadius)
        away == [j \in near |-> b.boids[i].position - b.boids[j].position]
        d    == [j \in near |-> Abs(away[j])]
        sum  == SumOf([j \in near |->
                          Sign(away[j]) * ProductOf(d, near \ {j})], near)
    IN  IF near = {} THEN 0 ELSE Steered(b, i, Sign(sum))

BoidSystem_calculateAlignment(b, i) ==
    LET near == Neighbours(b, i, b.params.perceptionRadius)
        sum  == SumOf([j \in near |-> b.boids[j].velocity], near)
    IN  IF near = {} THEN 0 ELSE Steered(b, i, Sign(sum))

BoidSystem_calculateCohesion(b, i) ==
    LET near == Neighbours(b, i, b.params.perceptionRadius)
        sum  == SumOf([j \in near |-> b.boids[j].position], near)
    IN  IF near = {} THEN 0
        ELSE Steered(b, i, Sign(sum - Cardinality(near) * b.boids[i].position))

BoidSystem_calculateBoundary(b, i) ==
    IF Abs(b.boids[i].position) > b.params.boundarySize
    THEN -Sign(b.boids[i].position) * b.params.boundaryForce
    ELSE 0

\* The acceleration the first loop of update gives boid i.
BoidForces(b, i) ==
    BoidTimes(BoidSystem_calculateSeparation(b, i), b.params.separationWeight)
    + BoidTimes(BoidSystem_calculateAlignment(b, i), b.params.alignmentWeight)
    + BoidTimes(BoidSystem_calculateCohesion(b, i), b.params.cohesionWeight)
    + BoidSystem_calculateBoundary(b, i)

BoidSystem_update(b, dt) ==
    [b EXCEPT !.boids =
        [i \in 1..Len(@) |->
            IF ~@[i].alive THEN @[i]
            ELSE LET acceleration == BoidTimes(BoidForces(b, i), dt)
                     added        == @[i].velocity + acceleration
                     velocity     == IF Abs(added) > b.params.maxSpeed
                                     THEN Sign(added) * b.params.maxSpeed
                                     ELSE added
                 IN  [@[i] EXCEPT !.acceleration = acceleration,
                                  !.velocity = velocity,
                                  !.position = @ + BoidTimes(velocity, dt)]]]

BoidSystem_reset(b) == [b EXCEPT !.boids = <<>>]

----------------------------------------------------------------------------
(* Actions of the BoidSystem.                                               *)

\* The params a BoidSystem is constructed with, and those setParams is
\* called with.
BoidConstructs ==
    {[maxForce |-> BoidOne \div 4],
     [maxForce |-> BoidOne \div 2, maxSpeed |-> 2 * BoidOne,
      boundarySize |-> BoidOne]}

BoidRetunes ==
    {[maxSpeed |-> BoidOne],
     [maxSpeed |-> -BoidOne],
     [separationWeight |-> BoidOne, cohesionWeight |-> 2 * BoidOne],
     [separationRadius |-> BoidOne \div 2, boundaryForce |-> BoidOne]}

\* Math.random() as drawn by spawn: 0, 0.25, 0.5, 0.75
BoidDraws == {0, BoidOne \div 4, BoidOne \div 2, 3 * (BoidOne \div 4)}

\* Centres of the boxes spawn is called with; their size is 4.
BoidCenters == {0, 32 * BoidOne}

BoidDts == {0, BoidOne \div 2, BoidOne}

NoBoidOp == [name |-> "new", prev |-> "new", dt |-> 0, calls |-> 0]

BoidsNew(params) ==
    /\ boidSystem = BoidSystem(params)
    /\ boidOp = NoBoidOp

BoidsIdle == BoidsNew([maxForce |-> BoidOne \div 4])

BoidInit ==
    /\ grid = "boids"
    /\ \E params \in BoidConstructs : BoidsNew(params)
    /\ fresh = boidSystem

\* A call on the BoidSystem that leaves it as b.
BoidCall(b, name, dt) ==
    /\ boidSystem' = b
    /\ boidOp' = [name |-> name, prev |-> boidOp.name, dt |-> dt,
                  calls |-> boidOp.calls + 1]
    /\ UNCHANGED exceptBoids

CanCallBoids == grid = "boids" /\ boidOp.calls < MaxBoidOps

BoidSpawn ==
    /\ CanCallBoids
    /\ \E count \in 1..(MaxBoids - Len(boidSystem.boids)),
          center \in BoidCenters :
           \E draws \in [1..count -> BoidDraws \X BoidDraws] :
               BoidCall(BoidSystem_spawn(boidSystem, count, center,
                                         4 * BoidOne, draws), "spawn", 0)

BoidRemove ==
    /\ CanCallBoids
    /\ \E count \in {1, MaxBoids} :
           \E dead \in Removable(boidSystem, count) :
               BoidCall(BoidSystem_remove(boidSystem, dead), "remove", 0)

BoidUpdate ==
    /\ CanCallBoids
    /\ \E dt \in BoidDts :
           BoidCall(BoidSystem_update(boidSystem, dt), "update", dt)

BoidSetParams ==
    /\ CanCallBoids
    /\ \E params \in BoidRetunes :
           BoidCall(BoidSystem_setParams(boidSystem, params), "setParams", 0)

BoidReset ==
    /\ CanCallBoids
    /\ BoidCall(BoidSystem_reset(boidSystem), "reset", 0)

BoidNext ==
    \/ BoidSpawn
    \/ BoidRemove
    \/ BoidUpdate
    \/ BoidSetParams
    \/ BoidReset

----------------------------------------------------------------------------
(* The scenarios' render(alpha) and App.render.  A scenario draws from the  *)
(* models it owns: grazing from a LogisticGrid, desire-paths from a         *)
(* WearGrid, pollution from a DiffusionGrid, overfishing from a BoidSystem, *)
(* bandwidth from an MM1Queue and a PacketManager.  What it draws is kept   *)
(* as the values it read: the matrices, colours and texels written are      *)
(* functions of them.                                                       *)

\* Frames rendered in one behaviour.
MaxFrames == 1

\* The interpolation fractions render is called with: 0 and 0.5, in halves.
Alphas == {0, 1}

NoView == [scenario |-> "none", frames |-> 0, drawn |-> <<>>]

\* Application as constructed: this.app = null, no scenario created yet.
NoApp == [created |-> FALSE, currentScenario |-> NULL, instances |-> <<>>]

\* What the last call on a BandwidthScenario did: the served it got from
\* the queue, whether createPacket returned a token, null, and a token
\* after an earlier null.
NoBandwidthOp ==
    [name |-> "none", served |-> 0, issued |-> FALSE, refused |-> FALSE,
     regained |-> FALSE]

\* No BandwidthScenario.
NoBandwidth ==
    [params |-> [bandwidth |-> 0, bufferSize |-> 0, userCount |-> 0,
                 userDataRate |-> 0],
     users |-> 0, visualPackets |-> <<>>, starved |-> FALSE,
     op |-> NoBandwidthOp]

SceneIdle == view = NoView /\ app = NoApp /\ bandwidth = NoBandwidth

\* The models a scenario can own and what it has drawn, as one value.
Scene ==
    [logisticGrid |-> logisticGrid, diffusionGrid |-> diffusionGrid,
     wearGrid |-> wearGrid, boidSystem |-> boidSystem, queue |-> queue,
     packetManager |-> packetManager, view |-> view]

\* The scenario that owns the object the calls are made on.
ScenarioOf(object) ==
    CASE object = "logistic"  -> "grazing"
      [] object = "wear"      -> "desire-paths"
      [] object = "diffusion" -> "pollution"
      [] object = "boids"     -> "overfishing"
      [] object \in {"queue", "packets"} -> "bandwidth"
      [] OTHER -> "none"

\* The frame a scenario draws.
Drawn(s, scenario, drawn) ==
    [s EXCEPT !.view.scenario = scenario, !.view.drawn = drawn]

\* GrazingScenario.render: updateGrassVisuals reads the cell of every blade.
GrazingScenario_render(s, alpha) ==
    Drawn(s, "grazing",
          [i \in Cells |->
              LogisticGrid_get(s.logisticGrid, i % Width, i \div Width)])

\* DesirePathsScenario.render: updateGroundTexture reads every cell.
DesirePathsScenario_render(s, alpha) ==
    Drawn(s, "desire-paths",
          [i \in Cells |->
              WearGrid_get(s.wearGrid, 2 * (i % Width), 2 * (i \div Width))])

\* DiffusionGrid.getInterpolated(x, y) for whole x and y: fx and fy are 0,
\* and v * 0 is 0 for every v but NaN.
DiffusionGrid_getInterpolated(g, x, y) ==
    LET x1  == Min(x + 1, Width - 1)
        y1  == Min(y + 1, Height - 1)
        v00 == DiffusionGrid_get(g, 2 * x, 2 * y)
        v10 == DiffusionGrid_get(g, 2 * x1, 2 * y)
        v01 == DiffusionGrid_get(g, 2 * x, 2 * y1)
        v11 == DiffusionGrid_get(g, 2 * x1, 2 * y1)
    IN  IF NaN \in {v00, v10, v01, v11} THEN NaN ELSE v00

\* Variant of PollutionScenario.render that clears the grid it has drawn.
PollutionScenario_renderClearing(s, alpha) ==
    [s EXCEPT !.diffusionGrid = DiffusionGrid_reset(@)]

\* PollutionScenario.render: updateSmokeParticles samples the grid where a
\* particle is, here one particle at every cell.
PollutionScenario_render(s, alpha) ==
    Drawn(s, "pollution",
          [i \in Cells |->
              DiffusionGrid_getInterpolated(s.diffusionGrid, i % Width,
                                            i \div Width)])

RECURSIVE LookAt(_, _)
\* updateFishInstances: the one fishDummy is placed at every live boid in
\* turn and turned along its velocity when that is longer than 0.1.
LookAt(boids, facing) ==
    IF boids = <<>> THEN <<>>
    ELSE LET boid   == Head(boids)
             turned == IF 10 * Abs(boid.velocity) > BoidOne
                       THEN Sign(boid.velocity)
                       ELSE facing
         IN  <<[position |-> boid.position, facing |-> turned]>>
                 \o LookAt(Tail(boids), turned)

\* OverfishingScenario.render: the ocean waves are a function of the clock;
\* updateFishInstances draws the boids that are alive.
OverfishingScenario_render(s, alpha) ==
    LET alive  == SelectSeq(s.boidSystem.boids, LAMBDA boid : boid.alive)
        facing == IF s.view.drawn = <<>> THEN 1
                  ELSE s.view.drawn[Len(s.view.drawn)].facing
    IN  Drawn(s, "overfishing", LookAt(alive, facing))

\* BandwidthScenario.render: serverMesh.rotation.y += 0.005, kept as the
\* number of steps turned.
BandwidthScenario_render(s, alpha) ==
    Drawn(s, "bandwidth",
          <<IF s.view.drawn = <<>> THEN 1 ELSE s.view.drawn[1] + 1>>)

\* App.render(alpha) with the given scenario as currentScenario; the camera
\* and the post-processing hold no state of the models.
App_render(s, scenario, alpha) ==
    CASE scenario = "grazing"      -> GrazingScenario_render(s, alpha)
      [] scenario = "desire-paths" -> DesirePathsScenario_render(s, alpha)
      [] scenario = "pollution"    -> PollutionScenario_render(s, alpha)
      [] scenario = "overfishing"  -> OverfishingScenario_render(s, alpha)
      [] scenario = "bandwidth"    -> BandwidthScenario_render(s, alpha)
      [] OTHER -> s

\* The scheduler calls onRender, playing (alpha >= 0) or paused (alpha 0);
\* view.frames counts the calls.
AppRender ==
    /\ ScenarioOf(grid) # "none"
    /\ view.frames < MaxFrames
    /\ \E alpha \in Alphas :
           LET after == App_render(Scene, ScenarioOf(grid), alpha)
           IN  /\ logisticGrid' = after.logisticGrid
               /\ diffusionGrid' = after.diffusionGrid
               /\ wearGrid' = after.wearGrid
               /\ boidSystem' = after.boidSystem
               /\ queue' = after.queue
               /\ packetManager' = after.packetManager
               /\ view' = [after.view EXCEPT !.frames = @ + 1]
    /\ UNCHANGED <<engineVars, grid, fresh, gridOp, gridOps, pathVars,
                   queueOp, queueOps, drive, packetOp, boidOp, app,
                   bandwidth>>

RenderNext ==
    \/ GridNext
    \/ QueueNext
    \/ PacketNext
    \/ BoidNext
    \/ AppRender

----------------------------------------------------------------------------
(* Application and App: route changes, scenario loading and the frames the  *)
(* engine runs in between. App.init awaits nothing that yields to the event *)
(* loop (createRenderer has no await, ComputeManager.init returns at once   *)
(* without WebGPU), so it is part of the step that calls it.                *)

\* Scenario instances ScenarioRegistry.create makes in one run.
MaxInstances == 3

\* The ids the scenarios register under.
ScenarioIds ==
    {"grazing", "overfishing", "desire-paths", "pollution", "bandwidth"}

\* The scenarios whose setup awaits loader.loadAsync; the setup of the
\* others awaits nothing.
LoadsAssets(id) == id \in {"grazing", "overfishing", "desire-paths"}

\* entry.create(): a scenario whose init has not been called. early holds
\* the calls that reached it before its init completed.
NewScenario(id) == [id |-> id, phase |-> "created", early |-> {}]

\* this.currentScenario?.<call>(...)
Reach(a, call) ==
    IF a.currentScenario = NULL THEN a
    ELSE [a EXCEPT !.instances[a.currentScenario].early =
                       IF a.instances[a.currentScenario].phase = "ready"
                       THEN @ ELSE @ \cup {call}]

\* init up to the first await that yields: context, the defaults of the
\* params, and setup up to loadAsync or to its end.
ScenarioBase_init(a, i) ==
    [a EXCEPT !.instances[i].phase =
                  IF LoadsAssets(a.instances[i].id) THEN "loading"
                  ELSE "ready"]

\* loadScenario up to await scenario.init(context).
App_loadScenario(a, i) ==
    ScenarioBase_init([Reach(a, "dispose") EXCEPT !.currentScenario = i], i)

\* What is left of loadScenario and of showSimulation once init has
\* completed: simulationEngine.reset(), then app.start().
App_start(e, t) == Start(Reset(e), t)

\* App.update for each onUpdate call of a frame, then App.render for its
\* onRender call.
App_frame(a, updates, renders) ==
    LET updated == IF updates = <<>> THEN a ELSE Reach(a, "update")
    IN  IF renders = <<>> THEN updated ELSE Reach(updated, "render")

AppEngine(e, op, updates, renders, t) ==
    /\ SetEngine(e)
    /\ now' = t
    /\ lastOp' = op
    /\ lastHook' = NoHook
    /\ updateCalls' = updates
    /\ renderCalls' = renders
    /\ UNCHANGED <<steady, totalUpdates, totalEffective>>

exceptApp ==
    <<gridVars, pathVars, queueVars, packetVars, boidVars, view, bandwidth>>

\* hashchange to #scenario/<id>, id a registered scenario: showSimulation
\* up to the await on loadAsync, or to its end when setup loads nothing.
ShowSimulation ==
    \E id \in ScenarioIds :
        /\ Len(app.instances) < MaxInstances
        /\ LET i == Len(app.instances) + 1
               created ==
                   [app EXCEPT !.created = TRUE,
                               !.instances = Append(@, NewScenario(id))]
           IN  app' = App_loadScenario(created, i)
        /\ IF LoadsAssets(id)
           THEN UNCHANGED engineVars
           ELSE AppEngine(App_start(Engine, now), "start", <<>>, <<>>, now)
        /\ UNCHANGED exceptApp

\* loadAsync settles for instance i: setup and init complete, and
\* loadScenario and showSimulation run to their ends.
AssetsLoaded ==
    \E i \in 1..Len(app.instances) :
        /\ app.instances[i].phase = "loading"
        /\ app' = [app EXCEPT !.instances[i].phase = "ready"]
        /\ AppEngine(App_start(Engine, now), "start", <<>>, <<>>, now)
        /\ UNCHANGED exceptApp

\* hashchange to any other hash: showLanding.
ShowLanding ==
    /\ app.created
    /\ AppEngine(Stop(Engine), "stop", <<>>, <<>>, now)
    /\ UNCHANGED <<app, exceptApp>>

\* The browser runs a requested frame callback: loop, whose onUpdate and
\* onRender are App.update and App.render.
AppFrame ==
    \E id \in pending, d \in Deltas :
      \E r \in {Loop([Engine EXCEPT !.pending = @ \ {id}], now + d, NoHook)} :
        /\ now + d <= MaxTime
        /\ AppEngine(r.engine, "loop", r.updates, r.renders, now + d)
        /\ app' = App_frame(app, r.updates, r.renders)
        /\ UNCHANGED exceptApp

AppNext == ShowSimulation \/ AssetsLoaded \/ ShowLanding \/ AppFrame \/ Wait

----------------------------------------------------------------------------
(* BandwidthScenario (scenarios/bandwidth/index.ts): an MM1Queue, a         *)
(* PacketManager and the visual packets, each holding the Packet it was     *)
(* created with (here: its id).  The engine calls update with FIXED_DT,     *)
(* taken as a quarter of a second.                                          *)

\* new PacketManager(2000)
BandwidthPool == 3

\* if (this.visualPackets.length > 100) return;
VisualCap == 1

\* The counters of the queue are followed up to CounterCap; a double takes
\* no further increment of 1 from 2^53 on.
CounterCap == 4 * Whole

BandwidthDt == Whole \div 4

\* The values of the params bandwidth, bufferSize, userCount, userDataRate.
BandwidthParams ==
    [bandwidth : {4 * Whole, 8 * Whole}, bufferSize : {Whole, 2 * Whole},
     userCount : {1, 2}, userDataRate : {2 * Whole, 4 * Whole}]

\* The scenario after setup: the users spawned, no visual packet.  starved
\* tells whether createPacket has returned null since setup or reset.
BandwidthScenario(params) ==
    [params |-> params, users |-> params.userCount, visualPackets |-> <<>>,
     starved |-> FALSE, op |-> NoBandwidthOp]

\* createVisualPacket(elapsed) with the user drawn, on s = [packetManager,
\* visualPackets, issued, refused].
BandwidthScenario_createVisualPacket(s, user, time) ==
    IF Len(s.visualPackets) > VisualCap THEN s
    ELSE LET r == PacketManager_createPacket(s.packetManager, user, 1, time)
         IN  IF r.ret = <<>> THEN [s EXCEPT !.refused = TRUE]
             ELSE [s EXCEPT !.packetManager = r.manager,
                            !.visualPackets = Append(@, r.ret[1].id),
                            !.issued = TRUE]

\* for (let i = 0; i < Math.min(result.served, 5); i++)
\*     this.createVisualPacket(elapsed);
RECURSIVE BandwidthScenario_createVisualPackets(_, _, _)
BandwidthScenario_createVisualPackets(s, picks, time) ==
    IF picks = <<>> THEN s
    ELSE The({BandwidthScenario_createVisualPackets(next, Tail(picks), time) :
                 next \in {BandwidthScenario_createVisualPacket(
                               s, Head(picks), time)}})

\* updateVisualPackets(dt) from visual packet i down to the first:
\* vp.packet.position += dt * 2, and the visual packet is spliced out when
\* the position reaches 1.
RECURSIVE BandwidthScenario_updateVisualPackets(_, _, _)
BandwidthScenario_updateVisualPackets(s, i, dt) ==
    IF i = 0 THEN s
    ELSE LET idx == FirstIndex({k \in 1..Len(s.packetManager.packets) :
                       s.packetManager.packets[k].id = s.visualPackets[i]})
             moved == [s EXCEPT !.packetManager.packets[idx].position = @ + dt]
             Arrived(m) == m.packetManager.packets[idx].position >= 2
         IN  The({BandwidthScenario_updateVisualPackets(after, i - 1, dt) :
                     after \in {IF Arrived(m)
                                THEN [m EXCEPT !.visualPackets = Splice(@, i)]
                                ELSE m : m \in {moved}}})

\* The number of createVisualPacket calls for result.served.
VisualPacketCalls(served) == Min(served, 5 * Whole) \div Whole

\* update(dt, elapsed) with the arrivals and the users drawn: the queue, the
\* PacketManager and the scenario it leaves.
BandwidthScenario_update(q, pm, b, dt, time, arrivals, picks) ==
    LET set    == MM1Queue_setParams(q, b.params.bandwidth,
                                     b.params.bufferSize)
        users  == b.params.userCount
        new    == [packetManager |-> pm, visualPackets |-> b.visualPackets,
                   issued |-> FALSE, refused |-> FALSE]
        Left(result, moved) ==
            [queue |-> result.queue,
             packetManager |-> moved.packetManager,
             scenario |->
                 [b EXCEPT !.users = users,
                           !.visualPackets = moved.visualPackets,
                           !.starved = @ \/ moved.refused,
                           !.op = [name |-> "update",
                                   served |-> result.served,
                                   issued |-> moved.issued,
                                   refused |-> moved.refused,
                                   regained |-> b.starved /\ moved.issued]]]
    IN  The({Left(result, moved) :
                result \in {MM1Queue_update(set, dt,
                                            users * b.params.userDataRate,
                                            arrivals)},
                moved \in
                    {BandwidthScenario_updateVisualPackets(
                         created, Len(created.visualPackets), dt) :
                       created \in {BandwidthScenario_createVisualPackets(
                                        new, picks, time)}}})

\* reset(): the queue and the PacketManager reset, no visual packet.
BandwidthScenario_reset(q, pm, b) ==
    [queue |-> MM1Queue_reset(q),
     packetManager |-> PacketManager_reset(pm),
     scenario |-> [b EXCEPT !.visualPackets = <<>>, !.starved = FALSE,
                            !.op = [NoBandwidthOp EXCEPT !.name = "reset"]]]

\* The queue with its counters followed up to CounterCap.
Counted(q) ==
    [q EXCEPT !.packetsServed = Min(@, CounterCap),
              !.packetsDropped = Min(@, CounterCap),
              !.totalLatency = Min(@, CounterCap)]

----------------------------------------------------------------------------
(* Actions of the BandwidthScenario.                                        *)

BandwidthInit ==
    /\ grid = "bandwidth"
    /\ \E params \in BandwidthParams :
           /\ bandwidth = BandwidthScenario(params)
           /\ queue = MM1Queue(params.bandwidth, params.bufferSize)
    /\ packetManager = PacketManager(BandwidthPool)
    /\ queueOp = NoQueueOp
    /\ queueOps = 0
    /\ drive = NoDrive
    /\ packetOp = NoPacketOp
    /\ fresh = "none"

exceptBandwidth ==
    <<engineVars, grid, logisticGrid, diffusionGrid, wearGrid, fresh, gridOp,
      gridOps, pathVars, queueOp, queueOps, drive, packetOp, boidVars, view,
      app>>

\* The users createVisualPacket draws in n calls.
Picks(n, users) == [1..n -> 0..(users - 1)]

\* App.update calls update(FIXED_DT, elapsed).
BandwidthUpdate ==
    /\ grid = "bandwidth"
    /\ \E time \in PacketTimes :
       \E arrivals \in Arrivals(QueueTimes(bandwidth.params.userCount
                                           * bandwidth.params.userDataRate,
                                           BandwidthDt)) :
       \E served \in {MM1Queue_update(
                         MM1Queue_setParams(queue, bandwidth.params.bandwidth,
                                            bandwidth.params.bufferSize),
                         BandwidthDt,
                         bandwidth.params.userCount
                         * bandwidth.params.userDataRate,
                         arrivals).served} :
       \E picks \in Picks(VisualPacketCalls(served),
                          bandwidth.params.userCount) :
       \E r \in {BandwidthScenario_update(queue, packetManager, bandwidth,
                                          BandwidthDt, time, arrivals,
                                          picks)} :
           /\ queue' = Counted(r.queue)
           /\ packetManager' = r.packetManager
           /\ bandwidth' = r.scenario
    /\ UNCHANGED exceptBandwidth

\* App.reset calls reset().
BandwidthReset ==
    /\ grid = "bandwidth"
    /\ LET r == BandwidthScenario_reset(queue, packetManager, bandwidth)
       IN  /\ queue' = r.queue
           /\ packetManager' = r.packetManager
           /\ bandwidth' = r.scenario
    /\ UNCHANGED exceptBandwidth

BandwidthNext == BandwidthUpdate \/ BandwidthReset

----------------------------------------------------------------------------
(* Specifications: Spec runs the engine, GridSpec one grid object, PathSpec *)
(* one findPath call on a Pathfinder, QueueSpec any calls on an MM1Queue,   *)
(* DriveSpec one update call on an MM1Queue over and over, PacketSpec any   *)
(* calls on a PacketManager, BoidSpec any calls on a BoidSystem, ModelSpec  *)
(* any calls on one grid, MM1Queue or BoidSystem.                           *)

vars == <<engineVars, gridVars, kernelVars>>

\* The models other than the grids, as constructed.
KernelNew == PathIdle /\ QueueIdle /\ PacketsIdle /\ BoidsIdle /\ SceneIdle

Init == EngineInit /\ grid = "none" /\ GridsNew /\ fresh = "none" /\ KernelNew

Next == EngineNext

Spec == Init /\ [][Next]_vars

\* One grid object to make calls on, the other models as constructed.
GridSpecInit == GridInit /\ KernelNew

GridSpec == GridSpecInit /\ [][GridNext]_vars

\* The engine and the grids as constructed and not run.
Stopped == EngineInit /\ GridsNew /\ SceneIdle

PathSpecInit ==
    /\ Stopped /\ fresh = "none"
    /\ PathInit /\ QueueIdle /\ PacketsIdle /\ BoidsIdle

PathSpec == PathSpecInit /\ [][PathNext]_vars

QueueSpecInit ==
    Stopped /\ PathIdle /\ QueueInit /\ PacketsIdle /\ BoidsIdle

QueueSpec == QueueSpecInit /\ [][QueueNext]_vars

DriveSpecInit ==
    Stopped /\ PathIdle /\ DriveInit /\ PacketsIdle /\ BoidsIdle

\* update is called again and again, MaxDrives times.
DriveSpec ==
    /\ DriveSpecInit
    /\ [][QueueDrive]_vars
    /\ WF_vars(QueueDrive)

PacketSpecInit ==
    Stopped /\ PathIdle /\ QueueIdle /\ PacketInit /\ BoidsIdle

PacketSpec == PacketSpecInit /\ [][PacketNext]_vars

BoidSpecInit ==
    Stopped /\ PathIdle /\ QueueIdle /\ PacketsIdle /\ BoidInit

BoidSpec == BoidSpecInit /\ [][BoidNext]_vars

ModelInit == GridSpecInit \/ QueueSpecInit \/ BoidSpecInit

\* Any calls on one grid, MM1Queue, PacketManager or BoidSystem, and the
\* frames its scenario renders in between.
RenderSpecInit == ModelInit \/ PacketSpecInit

RenderSpec == RenderSpecInit /\ [][RenderNext]_vars

ModelNext == GridNext \/ QueueNext \/ BoidNext

ModelSpec == ModelInit /\ [][ModelNext]_vars

\* The engine with every call made between two frames.
FrameSpec == Init /\ [][FrameNext]_vars

\* Route changes, asset loading and frames on an Application.
AppSpec == Init /\ [][AppNext]_vars

BandwidthSpecInit ==
    /\ EngineInit /\ GridsNew /\ view = NoView /\ app = NoApp
    /\ PathIdle /\ BoidsIdle /\ BandwidthInit

\* update is called frame after frame, reset at any time.
BandwidthSpec ==
    /\ BandwidthSpecInit
    /\ [][BandwidthNext]_vars
    /\ WF_vars(BandwidthUpdate)


----------------------------------------------------------------------------
(* Claims on the SimulationEngine.                                          *)

\* C1: every onUpdate call made by loop receives dt = FIXED_DT, whatever
\* the frame delta, the speed and the calls made before or inside the tick.
C1_UpdateDtIsFixed ==
    \A i \in 1..Len(updateCalls) : updateCalls[i].dt = FIXED_DT

\* A tick at a speed other than 1 whose capped delta made several updates.
C1_Witness ==
    /\ lastOp = "loop"
    /\ Len(updateCalls) >= 2
    /\ speed # 4
    /\ C1_UpdateDtIsFixed

\* floor(T / FIXED_DT) for the total effective time T of a steady engine.
ExpectedUpdates == totalEffective \div (4 * FIXED_DT)

\* The number (from 0) of the i-th onUpdate call of the last tick.
CallNumber(i) == totalUpdates - Len(updateCalls) + (i - 1)

UpdateCountWithinOne ==
    /\ totalUpdates - ExpectedUpdates <= 1
    /\ ExpectedUpdates - totalUpdates <= 1

\* C2 as stated: in an engine that stayed playing and was never reset the
\* number of updates is within one of floor(T / FIXED_DT), the k-th update
\* call is passed elapsed = k * FIXED_DT and after N updates elapsed equals
\* N * FIXED_DT, exactly.
C2_Original ==
    steady =>
        /\ UpdateCountWithinOne
        /\ elapsed = F64Times(totalUpdates, FIXED_DT_F64)
        /\ \A i \in 1..Len(updateCalls) :
               updateCalls[i].elapsed = F64Times(CallNumber(i), FIXED_DT_F64)

\* |a - n * FIXED_DT| is at most n units in the last place of a.
NearMultiple(a, n) ==
    BigWithin(a, BigScale(n, FIXED_DT_F64), n * F64Ulp(a))

\* C2, amended: the number of updates is within one of floor(T / FIXED_DT);
\* the first update call is passed 0, each later one the elapsed of the one
\* before plus FIXED_DT, and elapsed ends as the last one's plus FIXED_DT
\* (sums of doubles); the k-th call's elapsed and elapsed after N updates
\* equal k * FIXED_DT and N * FIXED_DT when k, N <= 5, and are within k and
\* N units in the last place of them always.
C2_Amended ==
    steady =>
        /\ UpdateCountWithinOne
        /\ totalUpdates = 0 => elapsed = F64Zero
        /\ \A i \in 1..Len(updateCalls) :
               /\ CallNumber(i) = 0 => updateCalls[i].elapsed = F64Zero
               /\ F64Add(updateCalls[i].elapsed, FIXED_DT_F64) =
                      IF i < Len(updateCalls) THEN updateCalls[i + 1].elapsed
                      ELSE elapsed
               /\ CallNumber(i) <= 5 =>
                      updateCalls[i].elapsed
                          = F64Times(CallNumber(i), FIXED_DT_F64)
               /\ NearMultiple(updateCalls[i].elapsed, CallNumber(i))
        /\ totalUpdates <= 5 =>
               elapsed = F64Times(totalUpdates, FIXED_DT_F64)
        /\ NearMultiple(elapsed, totalUpdates)

\* A steady engine past its sixth update, after a tick of several updates
\* at a speed other than 1, whose elapsed is not totalUpdates * FIXED_DT.
C2_Witness ==
    /\ steady
    /\ lastOp = "loop"
    /\ totalUpdates >= 6
    /\ Len(updateCalls) >= 2
    /\ speed # 4
    /\ elapsed # F64Times(totalUpdates, FIXED_DT_F64)

\* C3: a tick of a paused engine calls render(0) once and update never, and
\* leaves elapsed, the accumulator and the speed as they were; lastTime
\* becomes the frame's timestamp.  (The tick's own effect: the render
\* callback makes no call into the engine.)
C3_PausedTick ==
    [][(lastOp' = "loop" /\ ~isPlaying /\ lastHook' = NoHook) =>
          /\ renderCalls' = <<RenderZero>>
          /\ updateCalls' = <<>>
          /\ elapsed' = elapsed
          /\ accumulator' = accumulator
          /\ speed' = speed
          /\ isPlaying' = isPlaying
          /\ lastTime' = now']_vars

\* A paused engine with time on its accumulator, just after a tick that
\* came later than lastTime.
C3_Witness ==
    /\ lastOp = "loop"
    /\ lastHook = NoHook
    /\ ~isPlaying
    /\ renderCalls = <<RenderZero>>
    /\ accumulator > 0
    /\ elapsed # F64Zero
    /\ lastTime = MaxTime

\* C4: reset() zeroes elapsed and the accumulator and leaves isPlaying and
\* speed as they were.
C4_Reset ==
    [][lastOp' = "reset" =>
          /\ elapsed' = F64Zero
          /\ accumulator' = 0
          /\ isPlaying' = isPlaying
          /\ speed' = speed]_vars

\* reset() has just run on a paused engine at speed 4 that has ticked.
C4_Witness ==
    /\ lastOp = "reset"
    /\ ~isPlaying
    /\ speed = 16
    /\ lastTime > 0
    /\ elapsed = F64Zero
    /\ accumulator = 0

\* getState()
GetState(e) ==
    [isPlaying |-> e.isPlaying, speed |-> e.speed, elapsed |-> e.elapsed]

IdempotentCalls ==
    {c \in ControlCalls : c.name \in {"play", "pause", "setSpeed"}}

\* C5: play, pause and setSpeed are idempotent on getState(), make no
\* update call and leave elapsed and the accumulator alone; speed is always
\* one of SPEED_OPTIONS: setSpeed with another value changes nothing, and
\* faster and slower stop at 4 and 0.25.
C5_Idempotent ==
    /\ Includes(SPEED_OPTIONS, speed)
    /\ \A c \in IdempotentCalls :
           LET once  == Call(Engine, c, now)
               twice == Call(once, c, now)
           IN  /\ GetState(twice) = GetState(once)
               /\ once.elapsed = elapsed
               /\ once.accumulator = accumulator
               /\ (c.name = "setSpeed" /\ ~Includes(SPEED_OPTIONS, c.arg))
                      => once = Engine
    /\ speed = SPEED_OPTIONS[Len(SPEED_OPTIONS)] => Faster(Engine) = Engine
    /\ speed = SPEED_OPTIONS[1] => Slower(Engine) = Engine
    /\ lastOp \in {"play", "pause", "setSpeed", "faster", "slower"}
           => updateCalls = <<>> /\ renderCalls = <<>>

\* setSpeed has just run on a paused engine, now at speed 0.25, with
\* simulated time behind it.
C5_Witness ==
    /\ lastOp = "setSpeed"
    /\ speed = 1
    /\ ~isPlaying
    /\ elapsed # F64Zero
    /\ accumulator > 0

\* The updates a tick makes when nothing cuts it short.
FullDrain(acc, s, delta) ==
    Max(0, (acc + (Min(delta * UnitsPerMs, SpiralCap) * s) \div 4)
               \div FIXED_DT)

\* C6: once stopped no frame callback is pending, so no tick happens until
\* start(); at most one frame callback is ever pending (start() on a running
\* engine requests no second one); and a stop() made from inside a tick's
\* callback leaves the rest of the tick to run (every update, the render)
\* and cancels the frame the tick had requested.
C6_StopStart ==
    /\ [](animationId = NULL => pending = {})
    /\ [](Cardinality(pending) <= 1)
    /\ [](pending # {} => pending = {animationId})
    /\ [][(lastOp' = "loop" /\ lastHook'.call.name = "stop") =>
             /\ pending' = {}
             /\ animationId' = NULL
             /\ Len(renderCalls') = 1
             /\ Len(updateCalls') =
                    IF isPlaying
                    THEN FullDrain(accumulator, speed, now' - lastTime)
                    ELSE 0]_vars

\* A tick whose first update callback stopped the engine and that still made
\* its other updates and its render.
C6_Witness ==
    /\ lastOp = "loop"
    /\ lastHook = [at |-> "update", call |-> [name |-> "stop", arg |-> 0]]
    /\ Len(updateCalls) >= 2
    /\ Len(renderCalls) = 1
    /\ animationId = NULL
    /\ pending = {}


----------------------------------------------------------------------------
(* Claims on the grid models.                                               *)

\* C7: in a LogisticGrid made with r > 0 and K > 0, after any sequence of
\* set, consume, update(dt >= 0), setParams and reset calls every cell holds
\* a value from 0 to the grid's current K.
C7_WithinCapacity ==
    grid = "logistic" =>
        \A i \in Cells :
            /\ 0 <= logisticGrid.data[i]
            /\ logisticGrid.data[i] <= logisticGrid.K

\* C8: in a DiffusionGrid and in a WearGrid, after any sequence of emit,
\* emitRadius, update, setParams and reset, and of wear, wearRadius, update,
\* setParams and reset, with any amounts, radii and dt, every cell holds a
\* value from 0 to 1.
C8_WithinUnit ==
    /\ grid = "diffusion" =>
           \A i \in Cells :
               /\ diffusionGrid.data[i] # NaN
               /\ 0 <= diffusionGrid.data[i]
               /\ diffusionGrid.data[i] <= One
    /\ grid = "wear" =>
           \A i \in Cells :
               /\ wearGrid.data[i] # NaN
               /\ 0 <= wearGrid.data[i]
               /\ wearGrid.data[i] <= One

\* Whether (x, y) has x outside [0, Width) or y outside [0, Height).
OffGrid(x, y) == x < 0 \/ x >= Width \/ y < 0 \/ y >= Height

\* Whether the call just made was made at coordinates off the grid; those
\* of a DiffusionGrid and of a WearGrid are recorded in halves.
CalledOffGrid(op) ==
    IF grid = "logistic" THEN OffGrid(op.x, op.y)
    ELSE \/ op.x < 0 \/ op.x >= 2 * Width
         \/ op.y < 0 \/ op.y >= 2 * Height

\* C9: at coordinates off the grid LogisticGrid.get and DiffusionGrid.get
\* return 0 and WearGrid.get returns 1, and LogisticGrid.set,
\* LogisticGrid.consume, DiffusionGrid.emit and WearGrid.wear leave every
\* cell as it was, consume returning 0.
C9_OffGrid ==
    [][CalledOffGrid(gridOp') =>
          /\ gridOp'.name = "get" =>
                 gridOp'.ret = IF grid = "wear" THEN One ELSE 0
          /\ gridOp'.name \in {"set", "consume", "emit", "wear"} =>
                 /\ logisticGrid'.data = logisticGrid.data
                 /\ diffusionGrid'.data = diffusionGrid.data
                 /\ wearGrid'.data = wearGrid.data
          /\ gridOp'.name = "consume" => gridOp'.ret = 0]_vars

\* What update(dt) makes of the cells holding a value in [0, K], for every
\* dt of a set: none is lowered.
UpdateNeverLowers(dts) ==
    \A dt \in dts :
        LET after == LogisticGrid_update(logisticGrid, dt)
        IN  \A i \in Cells :
                (/\ 0 <= logisticGrid.data[i]
                 /\ logisticGrid.data[i] <= logisticGrid.K)
                    => after.data[i] >= logisticGrid.data[i]

\* C10 as stated: consume(x, y, amount) on a cell of the grid holding v
\* returns min(v, amount), leaves the cell at v minus the value returned,
\* never below 0, and changes no other cell; update never lowers a cell
\* whose value is in [0, K].
C10_Original ==
    grid = "logistic" =>
        /\ \A x \in 0..(Width - 1), y \in 0..(Height - 1), amount \in Amounts :
               LET idx == y * Width + x
                   v   == logisticGrid.data[idx]
                   r   == LogisticGrid_consume(logisticGrid, x, y, amount)
               IN  /\ r.consumed = Min(v, amount)
                   /\ r.grid.data[idx] = v - r.consumed
                   /\ r.grid.data[idx] >= 0
                   /\ \A i \in Cells \ {idx} :
                          r.grid.data[i] = logisticGrid.data[i]
        /\ UpdateNeverLowers(AnyDts)

\* C10, amended: consume(x, y, amount) on a cell of the grid holding v
\* returns min(v, amount), leaves the cell at the float32 nearest to v
\* minus the value returned (a float32 c, no further from it than half a
\* unit in the last place), never below 0, and changes no other cell and
\* neither r nor K; update(dt) with dt >= 0 never lowers a cell whose value
\* is in [0, K].
C10_Amended ==
    grid = "logistic" =>
        /\ \A x \in 0..(Width - 1), y \in 0..(Height - 1), amount \in Amounts :
               LET idx   == y * Width + x
                   v     == logisticGrid.data[idx]
                   r     == LogisticGrid_consume(logisticGrid, x, y, amount)
                   c     == r.grid.data[idx]
                   exact == v - r.consumed
               IN  /\ r.consumed <= v
                   /\ r.consumed <= amount
                   /\ r.consumed \in {v, amount}
                   /\ c % Ulp32(Abs(c)) = 0
                   /\ 2 * Abs(c - exact) <= Ulp32(Abs(exact))
                   /\ c >= 0
                   /\ \A i \in Cells \ {idx} :
                          r.grid.data[i] = logisticGrid.data[i]
                   /\ r.grid.r = logisticGrid.r
                   /\ r.grid.K = logisticGrid.K
        /\ UpdateNeverLowers(Dts)

\* consume has just been called, for 2^-26, on a cell of the grid that held
\* 1: it returned 2^-26 and the cell still holds 1.
C10_Witness ==
    /\ grid = "logistic"
    /\ gridOp.name = "consume"
    /\ ~OffGrid(gridOp.x, gridOp.y)
    /\ gridOp.a = 1
    /\ gridOp.ret = 1
    /\ logisticGrid.data[gridOp.y * Width + gridOp.x] = One
    /\ logisticGrid.K = One

\* Whether every cell of the DiffusionGrid lies in [0, 1].
DiffusionWithinUnit ==
    \A i \in Cells : 0 <= diffusionGrid.data[i] /\ diffusionGrid.data[i] <= One

C13_CostAtLeastOne ==
    (/\ grid = "wear"
     /\ gridOp.name = "getPathCost"
     /\ 0 <= WearGrid_get(wearGrid, gridOp.x, gridOp.y)
     /\ WearGrid_get(wearGrid, gridOp.x, gridOp.y) <= One) =>
        LessEq(Widen(One), gridOp.ret)

----------------------------------------------------------------------------
(* Claims on the Pathfinder.                                                *)

\* Whether the start and the goal of the call lie on the grid.
StartValid == Pathfinder_isValid(search.sx, search.sy)

GoalValid == Pathfinder_isValid(search.gx, search.gy)

\* C14: findPath returns the empty sequence whenever the floored start or
\* the floored goal lies off the grid, also when both are the same
\* coordinate off the grid; when start equals goal on the grid it returns
\* the one-element path of the start.
C14_DegenerateInput ==
    (grid = "path" /\ search.status = "returned") =>
        /\ (~StartValid \/ ~GoalValid) => search.path = <<>>
        /\ (StartValid /\ search.sx = search.gx /\ search.sy = search.gy) =>
               search.path = <<<<search.sx, search.sy>>>>

\* C15: a path returned that is not empty begins with the start, ends with
\* the goal, holds only coordinates of the grid, none of them twice, and
\* each coordinate is one of the eight neighbours of the one before it.
C15_PathShape ==
    (grid = "path" /\ search.status = "returned" /\ search.path # <<>>) =>
        LET path == search.path
        IN  /\ path[1] = <<search.sx, search.sy>>
            /\ path[Len(path)] = <<search.gx, search.gy>>
            /\ \A i \in 1..Len(path) : Pathfinder_isValid(path[i][1], path[i][2])
            /\ \A i, j \in 1..Len(path) : i # j => path[i] # path[j]
            /\ \A i \in 1..(Len(path) - 1) :
                   /\ Abs(path[i + 1][1] - path[i][1]) <= 1
                   /\ Abs(path[i + 1][2] - path[i][2]) <= 1

\* Whether getCost is the same positive constant for every cell.
UniformGrid ==
    \E c \in {pathfinder.getCost[p] : p \in PathCells} :
        c > 0 /\ pathfinder.getCost = UniformCost(c)

\* C16: on a grid of one positive cost, findPath between two cells of the
\* same row, n columns apart, returns n + 1 coordinates, all of that row,
\* with x strictly monotonic from the start to the goal.
C16_StraightRow ==
    (/\ grid = "path"
     /\ search.status = "returned"
     /\ UniformGrid
     /\ StartValid
     /\ GoalValid
     /\ search.sy = search.gy) =>
        LET path == search.path
            step == IF search.gx >= search.sx THEN 1 ELSE -1
        IN  /\ Len(path) = Abs(search.gx - search.sx) + 1
            /\ \A i \in 1..Len(path) :
                   path[i] = <<search.sx + step * (i - 1), search.sy>>

\* findPath(0, 0, PathWidth - 1, 0) on a grid of one cost has returned the
\* PathWidth coordinates of row 0, x increasing.
C16_Witness ==
    /\ grid = "path"
    /\ search.status = "returned"
    /\ UniformGrid
    /\ search.sx = 0
    /\ search.sy = 0
    /\ search.gx = PathWidth - 1
    /\ search.gy = 0
    /\ search.path = [i \in 1..PathWidth |-> <<i - 1, 0>>]
    /\ search.iterations = PathWidth

----------------------------------------------------------------------------
(* Claims on the MM1Queue.                                                  *)

\* C17: after any sequence of update(dt >= 0, arrivalRate >= 0),
\* setParams(capacity, bufferSize) and reset calls on an MM1Queue,
\* 0 <= queueLength <= the current bufferSize.
C17_WithinBuffer ==
    grid = "queue" =>
        /\ 0 <= queue.queueLength
        /\ queue.queueLength <= queue.bufferSize

\* Whether the update call the queue is driven with brings more than the
\* queue can serve and hold: arrivalRate * dt > capacity * dt + bufferSize.
Overloaded ==
    QueueTimes(drive.arrivalRate, drive.dt) >
        QueueTimes(queue.capacity, drive.dt) + queue.bufferSize

\* Whether the last update call returned dropped > 0 and a queueLength
\* equal to bufferSize.
Saturated ==
    /\ queueOp.name = "update"
    /\ queueOp.dropped > 0
    /\ queueOp.queueLength = queue.bufferSize

\* C18 as stated: an MM1Queue driven again and again with an update call
\* for which arrivalRate * dt > capacity * dt + bufferSize comes to a call
\* that returns dropped > 0 and queueLength = bufferSize, and every later
\* call returns that too.
C18_Original ==
    /\ <>[]((grid = "drive" /\ Overloaded) => Saturated)
    /\ [][(grid = "drive" /\ Overloaded /\ Saturated) => Saturated']_vars

\* Whether even the fewest arrivals update can draw, the whole part of
\* arrivalRate * dt, are more than one call serves.
FloorOverloaded ==
    QueueFloor(QueueTimes(drive.arrivalRate, drive.dt)) >
        QueueTimes(queue.capacity, drive.dt)

\* Whether a queue is driven with such an update call.
Oversupplied == grid = "drive" /\ Overloaded /\ FloorOverloaded

\* C18, amended: an MM1Queue driven again and again with an update call
\* for which arrivalRate * dt > capacity * dt + bufferSize and
\* floor(arrivalRate * dt) > capacity * dt comes to a call that returns
\* dropped > 0 and queueLength = bufferSize, and every later call returns
\* that too.
C18_Amended ==
    /\ <>[](Oversupplied => Saturated)
    /\ [][(Oversupplied /\ Saturated) => Saturated']_vars

\* A queue driven with arrivalRate * dt = 1.5, capacity * dt = 0 and
\* bufferSize 1 has drawn 1 arrival twice: the first call filled the
\* buffer and dropped nothing, the second dropped 1.
C18_Witness ==
    /\ Oversupplied
    /\ QueueTimes(drive.arrivalRate, drive.dt) = 3 * (Whole \div 2)
    /\ queue.bufferSize = Whole
    /\ queueOps = 2
    /\ Saturated
    /\ queue.packetsDropped = Whole
    /\ queueOp.arrivals = Whole

----------------------------------------------------------------------------
(* Claims on the PacketManager.                                             *)

\* The packets of the pool that are delivered or dropped.
TerminalPackets ==
    {p \in {packetManager.packets[i] : i \in 1..Len(packetManager.packets)} :
        IsTerminal(p)}

\* What createPacket, called on a full pool, has made of the pool: without
\* the terminal packet created first, the one of the least id, and with
\* the new packet behind the others; or, no packet being terminal, the
\* pool and the id counter as they were and null returned.
EvictedOldest ==
    IF TerminalPackets = {}
    THEN /\ packetOp'.ret = <<>>
         /\ packetManager' = packetManager
    ELSE LET oldest == CHOOSE p \in TerminalPackets :
                           \A q \in TerminalPackets : p.id <= q.id
             Stays(p) == p # oldest
         IN  /\ Len(packetOp'.ret) = 1
             /\ packetOp'.ret[1].id = packetManager.nextId
             /\ packetManager'.packets =
                    Append(SelectSeq(packetManager.packets, Stays),
                           packetOp'.ret[1])
             /\ Len(packetManager'.packets) = Len(packetManager.packets)

\* C19: after any sequence of createPacket, updatePacket, removeDelivered,
\* removeDropped and reset calls a PacketManager holds at most maxPackets
\* packets; createPacket on a full pool removes exactly one packet, the
\* terminal one created first, and then adds the new one, and when no
\* packet is terminal it returns null and leaves the pool and the id
\* counter as they were.
C19_BoundedPool ==
    /\ [](grid = "packets" =>
             Len(packetManager.packets) <= packetManager.maxPackets)
    /\ [][(/\ grid = "packets"
           /\ packetOp'.name = "createPacket"
           /\ Len(packetManager.packets) >= packetManager.maxPackets)
              => EvictedOldest]_vars

\* createPacket has just been called on a pool of two terminal packets: the
\* one of id 0 is gone, the one of id 1 is first, the new one is second.
C19_Witness ==
    /\ grid = "packets"
    /\ packetOp.name = "createPacket"
    /\ packetManager.maxPackets = 2
    /\ Len(packetManager.packets) = 2
    /\ packetManager.packets[1].id = 1
    /\ packetManager.packets[1].state = "dropped"
    /\ packetManager.packets[2].id = 2
    /\ packetOp.ret = <<packetManager.packets[2]>>
    /\ packetOp.issued = {0, 1}

\* The moves of a packet's state: none, queued to transmitting,
\* transmitting to delivered or dropped.
Allowed(from, to) ==
    \/ from = to
    \/ from = "queued" /\ to = "transmitting"
    \/ from = "transmitting" /\ to \in Terminal

\* C20: every packet is created in state queued at position 0 with an id
\* above all ids given out before; the state of a packet of the pool only
\* moves from queued to transmitting and from transmitting to delivered or
\* dropped, never backwards and never out of a terminal state; no two
\* packets of the pool have the same id.
C20_Lifecycle ==
    [][grid = "packets" =>
        LET before == packetManager.packets
            after  == packetManager'.packets
        IN  /\ (packetOp'.name = "createPacket" /\ packetOp'.ret # <<>>) =>
                   /\ packetOp'.ret[1].state = "queued"
                   /\ packetOp'.ret[1].position = 0
                   /\ \A id \in packetOp'.issued : packetOp'.ret[1].id > id
            /\ \A i \in 1..Len(before), j \in 1..Len(after) :
                   before[i].id = after[j].id =>
                       Allowed(before[i].state, after[j].state)
            /\ \A i, j \in 1..Len(after) :
                   i # j => after[i].id # after[j].id]_vars

----------------------------------------------------------------------------
(* Claims on reset.                                                         *)

\* The object the calls are made on.
Exercised ==
    CASE grid = "logistic"  -> logisticGrid
      [] grid = "diffusion" -> diffusionGrid
      [] grid = "wear"      -> wearGrid
      [] grid = "queue"     -> queue
      [] grid = "boids"     -> boidSystem

\* What reset() and then update(0, ...) make of the object, for every
\* argument update takes besides dt; rate is the arrivalRate passed to the
\* update of an MM1Queue.
ResetThenUpdate ==
    CASE grid = "logistic" ->
             {[rate |-> 0,
               left |-> LogisticGrid_update(LogisticGrid_reset(logisticGrid), 0)]}
      [] grid = "diffusion" ->
             {[rate |-> 0,
               left |-> DiffusionGrid_update(DiffusionGrid_reset(diffusionGrid),
                                             0, wind[1], wind[2])] :
                 wind \in Winds}
      [] grid = "wear" ->
             {[rate |-> 0,
               left |-> WearGrid_update(WearGrid_reset(wearGrid), 0)]}
      [] grid = "queue" ->
             {[rate |-> arrivalRate,
               left |-> MM1Queue_update(MM1Queue_reset(queue), 0, arrivalRate,
                                        The(Arrivals(0))).queue] :
                 arrivalRate \in QueueRates}
      [] grid = "boids" ->
             {[rate |-> 0,
               left |-> BoidSystem_update(BoidSystem_reset(boidSystem), 0)]}

\* Whether the last call was reset(), and whether it was update(0, ...).
WasReset ==
    CASE grid \in {"logistic", "diffusion", "wear"} -> gridOp.name = "reset"
      [] grid = "queue" -> queueOp.name = "reset"
      [] grid = "boids" -> boidOp.name = "reset"

WasUpdateByZero ==
    CASE grid \in {"logistic", "diffusion", "wear"} ->
             gridOp.name = "update" /\ gridOp.a = 0
      [] grid = "queue" -> queueOp.name = "update" /\ queueOp.dt = 0
      [] grid = "boids" -> boidOp.name = "update" /\ boidOp.dt = 0

\* C11 as stated: after any calls on a LogisticGrid, WearGrid,
\* DiffusionGrid, MM1Queue or BoidSystem, reset() and then update(0, ...)
\* leave the object as it was constructed.
C11_Original ==
    /\ [](\A r \in ResetThenUpdate : r.left = fresh)
    /\ [][(WasReset /\ WasUpdateByZero') => Exercised' = fresh]_vars

\* An object of the kind exercised, constructed with the parameters x has
\* now, and, for an MM1Queue, its arrivalRate set.
FreshWith(x, arrivalRate) ==
    CASE grid = "logistic"  -> LogisticGrid(x.r, x.K)
      [] grid = "diffusion" -> DiffusionGrid(x.D, x.absorption)
      [] grid = "wear"      -> WearGrid(x.recoveryRate, x.durability)
      [] grid = "queue"     -> [MM1Queue(x.capacity, x.bufferSize)
                                   EXCEPT !.arrivalRate = arrivalRate]
      [] grid = "boids"     -> BoidSystem(x.params)

\* C11, amended: after any calls on a LogisticGrid, WearGrid, DiffusionGrid,
\* MM1Queue or BoidSystem, reset() and then update(0, ...) leave the object
\* as one constructed with its current parameters (those of the
\* constructor as setParams changed them), the arrivalRate of an MM1Queue
\* being the one passed to update.
C11_Amended ==
    /\ [](\A r \in ResetThenUpdate :
             r.left = FreshWith(Exercised, r.rate))
    /\ [][(WasReset /\ WasUpdateByZero') =>
             Exercised' = FreshWith(Exercised, queueOp'.arrivalRate)]_vars

\* An MM1Queue has been retuned, reset and updated with dt = 0 and an
\* arrivalRate above 0: it differs from the queue constructed in capacity
\* and arrivalRate only.
C11_Witness ==
    /\ grid = "queue"
    /\ queueOps = 3
    /\ queueOp.prev = "reset"
    /\ queueOp.name = "update"
    /\ queueOp.dt = 0
    /\ queueOp.arrivalRate > 0
    /\ queue.capacity # fresh.capacity
    /\ queue = [fresh EXCEPT !.capacity = queue.capacity,
                             !.arrivalRate = queueOp.arrivalRate]

----------------------------------------------------------------------------
(* Claims on the BoidSystem.                                                *)

\* The system with the boids that are not alive taken out of the list.
Compacted(b) == [b EXCEPT !.boids = SelectSeq(@, LAMBDA boid : boid.alive)]

\* Whether the step is an update call on the BoidSystem.
IsBoidUpdate == boidOp'.calls = boidOp.calls + 1 /\ boidOp'.name = "update"

\* C21: after every BoidSystem.update(dt), whatever the parameters set
\* through setParams before it, every boid that is alive has a velocity of
\* magnitude at most maxSpeed; a boid that is not alive keeps its position
\* and velocity, and the live boids move as they would without it.
C21_SpeedCap ==
    [][IsBoidUpdate =>
          /\ \A i \in AliveBoids(boidSystem') :
                 Abs(boidSystem'.boids[i].velocity)
                     <= boidSystem'.params.maxSpeed
          /\ \A i \in 1..Len(boidSystem.boids) :
                 ~boidSystem.boids[i].alive =>
                     boidSystem'.boids[i] = boidSystem.boids[i]
          /\ Compacted(boidSystem')
                 = BoidSystem_update(Compacted(boidSystem), boidOp'.dt)]_vars

----------------------------------------------------------------------------
(* Claims on the scenarios.                                                 *)

\* Whether the step is a render(alpha) call.
IsRender == view'.frames = view.frames + 1

\* C22: a render(alpha) call changes no state of the models: the cells and
\* parameters of the scenario's grid, the positions, velocities and alive
\* flags of its boids, its queue and its packet pool are after the call what
\* they were before it, for every alpha the scheduler passes, playing or
\* paused.
C22_RenderReadsOnly ==
    [][IsRender =>
          /\ logisticGrid' = logisticGrid
          /\ diffusionGrid' = diffusionGrid
          /\ wearGrid' = wearGrid
          /\ boidSystem' = boidSystem
          /\ queue' = queue
          /\ packetManager' = packetManager]_vars

\* A frame of the pollution scenario was rendered from a grid that holds
\* pollution, and one of the overfishing scenario from a system with a dead
\* boid, and so on for the other scenarios.
C22_Witness ==
    /\ view.frames > 0
    /\ \/ /\ view.scenario = "pollution"
          /\ \E i \in Cells : view.drawn[i] > 0 /\ diffusionGrid.data[i] > 0
       \/ /\ view.scenario = "overfishing"
          /\ Len(view.drawn) = 1
          /\ Len(boidSystem.boids) = 2

----------------------------------------------------------------------------
(* Claims on the search of the Pathfinder.                                  *)

\* The coordinates of the nodes of an open set, in its order.
Coordinates(openSet) == [i \in 1..Len(openSet) |-> <<openSet[i].x, openSet[i].y>>]

\* C23: findPath terminates: every pass through its loop is one more
\* iteration and there are at most width * height of them; the node an
\* iteration pops is of a coordinate not expanded before in the call (so the
\* iterations made are as many as the coordinates closed); and the open set
\* never holds two nodes of one coordinate.
C23_Terminates ==
    /\ [](search.status = "loop" =>
             LET at == Coordinates(search.openSet)
             IN  /\ search.iterations <= MaxIterations
                 /\ search.iterations = Cardinality(search.closedSet)
                 /\ \A i \in DOMAIN at : at[i] \notin search.closedSet
                 /\ \A i, j \in DOMAIN at : at[i] = at[j] => i = j)
    /\ [][search.status = "loop" =>
             /\ search'.iterations = search.iterations + 1
             /\ search'.iterations <= MaxIterations
             /\ Cardinality(search'.closedSet) = search'.iterations]_vars

\* A call has returned a path after expanding every cell of the grid but
\* one.
C23_Witness ==
    /\ search.status = "returned"
    /\ search.path # <<>>
    /\ search.iterations = MaxIterations - 1
    /\ Cardinality(search.closedSet) = MaxIterations - 1

\* A cost above that of every path of the grid.
Far == <<2^23, 0, 0>>

\* The least of a set of exact values.
BigMin(S) == CHOOSE m \in S : \A o \in S : BigLe(m, o)

\* The cells a step away from the cell c.
Around(c) ==
    {n \in PathCells :
        n # c /\ Abs(n[1] - c[1]) <= 1 /\ Abs(n[2] - c[2]) <= 1}

RECURSIVE Relaxed(_, _, _)
\* The least cost from a cell to every cell over paths of at most a number
\* of steps more than those dist accounts for, the costs of the steps added
\* up exactly.
Relaxed(p, dist, steps) ==
    IF steps = 0 THEN dist
    ELSE Relaxed(p,
                 [c \in PathCells |->
                     BigMin({dist[c]} \cup
                            {BigAdd(dist[n],
                                    StepCost(c[1] - n[1], c[2] - n[2],
                                             p.getCost[c])) :
                                n \in Around(c)})],
                 steps - 1)

\* The least cost of an 8-connected path on the grid from one cell to
\* another.
LeastCost(p, from, to) ==
    Relaxed(p, [c \in PathCells |-> IF c = from THEN F64Zero ELSE Far],
            PathWidth * PathHeight - 1)[to]

RECURSIVE PathCost(_, _)
\* The cost of a path: the sum of the costs of its steps.
PathCost(p, path) ==
    IF Len(path) <= 1 THEN F64Zero
    ELSE LET n == Len(path)
         IN  BigAdd(PathCost(p, SubSeq(path, 1, n - 1)),
                    StepCost(path[n][1] - path[n - 1][1],
                             path[n][2] - path[n - 1][2],
                             p.getCost[path[n]]))

\* Every terrain cost is at least 1.
CostsAtLeastOne == \A c \in PathCells : pathfinder.getCost[c] >= One

\* C24: when every terrain cost is at least 1, the path findPath returns
\* for a start and a goal on the grid costs no more than any other
\* 8-connected path on the grid from the start to the goal, a step into a
\* cell costing its terrain cost, times 1.414 when the step is diagonal.
C24_ShortestPath ==
    (/\ search.status = "returned"
     /\ StartValid
     /\ GoalValid
     /\ CostsAtLeastOne) =>
        /\ search.path # <<>>
        /\ PathCost(pathfinder, search.path)
               = LeastCost(pathfinder, <<search.sx, search.sy>>,
                           <<search.gx, search.gy>>)

\* The orders in which the cells can be visited.
VisitOrders ==
    {order \in [1..(Width * Height) -> Cells] :
        \A i, j \in DOMAIN order : order[i] = order[j] => i = j}

\* Whether the step is an update call on the DiffusionGrid.
IsDiffusionUpdate ==
    grid = "diffusion" /\ gridOps' = gridOps + 1 /\ gridOp'.name = "update"

\* C25: DiffusionGrid.update leaves in every cell the value computed from
\* the values that the cell and its 4 neighbours held before the call (a
\* cell at an edge standing in for the neighbour it lacks), as a step on a
\* frozen copy of the grid does, in whatever order the cells are visited;
\* and until the last cell is done the grid a caller reads is the grid of
\* before the call.
C25_OrderIndependent ==
    [][IsDiffusionUpdate =>
          LET dt     == gridOp'.a
              windX  == gridOp'.x
              windY  == gridOp'.y
              frozen == [idx \in Cells |->
                            DiffusionCell(diffusionGrid, idx, dt, windX,
                                          windY)]
          IN  /\ diffusionGrid'.data = frozen
              /\ \A order \in VisitOrders :
                     \E swept \in {DiffusionGrid_sweep(diffusionGrid, order,
                                                       dt, windX, windY)} :
                         /\ swept.data = diffusionGrid.data
                         /\ DiffusionGrid_swap(swept).data = frozen]_vars

\* update has just run with D > 0 and dt > 0 on a grid whose cells held
\* different values, and left two cells with different values above 0.
C25_Witness ==
    /\ grid = "diffusion"
    /\ gridOp.name = "update"
    /\ gridOp.a > 0
    /\ diffusionGrid.D > 0
    /\ \E i, j \in Cells :
           /\ 0 < diffusionGrid.data[i]
           /\ diffusionGrid.data[i] < diffusionGrid.data[j]

----------------------------------------------------------------------------
(* Claims on the Application.                                               *)

\* C26: no update, render or dispose call reaches a scenario handed to
\* loadScenario before its init has completed, whatever the interleaving of
\* route changes, asset loading and frames.
C26_InitBeforeUse ==
    \A i \in 1..Len(app.instances) : app.instances[i].early = {}

----------------------------------------------------------------------------
(* Claims on the BandwidthScenario.                                         *)

\* The last update called createPacket and had null returned.
Starved == grid = "bandwidth" /\ bandwidth.op.refused

\* The last update had a token returned after an earlier null.
Regained == bandwidth.op.regained

\* The last call was no update that the queue served a packet in.
NotServing == bandwidth.op.name # "update" \/ bandwidth.op.served = 0

\* C27: in the bandwidth scenario the exhaustion of the pool is not
\* permanent: while the queue keeps serving packets, an update in which
\* createPacket returned null is followed by one in which it returns a
\* token again.
C27_PoolRecovers == Starved ~> (Regained \/ NotServing)

----------------------------------------------------------------------------
(* Claims on the steps of the MM1Queue.                                     *)

IsQueueUpdate ==
    /\ grid = "queue"
    /\ queueOps' = queueOps + 1
    /\ queueOp'.name = "update"
    /\ queueOp'.dt >= 0

\* What a step adds to packetsServed and to packetsDropped.
ServedAdded == queue'.packetsServed - queue.packetsServed

DroppedAdded == queue'.packetsDropped - queue.packetsDropped

\* queueLength before + arrivals = served + dropped + queueLength after, with
\* served at most capacity * dt and at most queueLength + arrivals.
Conserved ==
    /\ queue.queueLength + queueOp'.arrivals =
           ServedAdded + DroppedAdded + queue'.queueLength
    /\ ServedAdded <= QueueTimes(queue.capacity, queueOp'.dt)
    /\ ServedAdded <= queue.queueLength + queueOp'.arrivals

\* C28: every update step with dt >= 0 conserves the packets, serves no
\* more than capacity * dt and than queueLength + arrivals, and returns as
\* served and dropped what it added to packetsServed and packetsDropped;
\* the two counters never decrease between resets.
C28_Conservation ==
    /\ [][IsQueueUpdate =>
              /\ Conserved
              /\ queueOp'.served = ServedAdded
              /\ queueOp'.dropped = DroppedAdded]_vars
    /\ [][(grid = "queue" /\ queueOp'.name # "reset") =>
              /\ queue'.packetsServed >= queue.packetsServed
              /\ queue'.packetsDropped >= queue.packetsDropped]_vars

----------------------------------------------------------------------------
(* Claims on the accumulator of the SimulationEngine.                       *)

\* floor(0.2 * speed / FIXED_DT) + 1 for a speed in quarters.
MostUpdates(s) == ((SpiralCap * s) \div 4) \div FIXED_DT + 1

IsPlainTick == lastOp' = "loop" /\ lastHook' = NoHook

\* C29: with the calls arriving between the ticks only, 0 <= accumulator <
\* FIXED_DT at the end of every tick, the alpha passed to render is in
\* [0, 1), a tick makes at most floor(0.2 * speed / FIXED_DT) + 1 update
\* calls, a paused tick accumulates nothing, and a playing tick accumulates
\* the time since the tick before it (at most 0.2 s) times the speed,
\* however long the engine was paused.
C29_Accumulator ==
    /\ [](/\ 0 <= accumulator
          /\ accumulator < FIXED_DT
          /\ \A i \in 1..Len(renderCalls) :
                 /\ 0 <= renderCalls[i].num
                 /\ renderCalls[i].num < renderCalls[i].den
          /\ Len(updateCalls) <= MostUpdates(speed))
    /\ [][(IsPlainTick /\ ~isPlaying) =>
              /\ accumulator' = accumulator
              /\ updateCalls' = <<>>]_vars
    /\ [][(IsPlainTick /\ isPlaying) =>
              Len(updateCalls') * FIXED_DT + accumulator' =
                  accumulator
                  + EffectiveDt(Min((now' - now) * UnitsPerMs, SpiralCap),
                                speed)]_vars

\* An engine at speed 0.25, 200 ms after start, of which it played the last
\* frame of 50 ms only: that frame made no update and left 12.5 ms on the
\* accumulator.
C29_Witness ==
    /\ lastOp = "loop"
    /\ lastHook = NoHook
    /\ isPlaying
    /\ speed = 1
    /\ now = 4 * ClockStep
    /\ lastTime = now
    /\ elapsed = F64Zero
    /\ updateCalls = <<>>
    /\ accumulator = 3 * (FIXED_DT \div 4)
    /\ renderCalls = <<Alpha(accumulator)>>

----------------------------------------------------------------------------
(* Claims on the budget of findPath.                                        *)

\* getCost returns a positive number that is no NaN for every cell.
CostsPositive == \A p \in PathCells : pathfinder.getCost[p] > 0

\* A findPath call with start and goal on the grid, on such costs.
InBoundsSearch == grid = "path" /\ StartValid /\ GoalValid /\ CostsPositive

\* C30: for a start and a goal on the grid and positive finite costs the
\* loop of findPath is never left because the open set is empty or the
\* width * height iterations are used up, and the path returned is not
\* empty.
C30_AlwaysFinds ==
    /\ (InBoundsSearch /\ search.status = "loop") => LoopCondition(search)
    /\ (InBoundsSearch /\ search.status = "returned") => search.path # <<>>

\* findPath from the first cell to the last one of the grid with the ridge
\* has returned a path after at least PathWidth iterations.
C30_Witness ==
    /\ InBoundsSearch
    /\ pathfinder.getCost = RidgeCost
    /\ search.status = "returned"
    /\ search.sx = 0 /\ search.sy = 0
    /\ search.gx = PathWidth - 1 /\ search.gy = PathHeight - 1
    /\ search.iterations >= PathWidth
    /\ Len(search.path) >= PathWidth
    /\ search.path[Len(search.path)] = <<search.gx, search.gy>>

====
